---- MODULE Spec2Model ----
(***************************************************************************)
(* Lane-mask pipeline of scripts/ml_pipeline/lane_preprocessing.py:        *)
(* TemporalSmoother, classify_lines, fit_lane_line, build_lane_mask_v2,    *)
(* build_lane_mask_single_lane and process_frame_with_fallback.            *)
(*                                                                         *)
(* Optional values (Python None) are the empty tuple; a lane line is       *)
(* <<<<x0, y0>>, <<x1, y1>>>>, a segment <<x1, y1, x2, y2>>, a mask the     *)
(* tuple of its pixel values at NPix probe points.  The outputs of the     *)
(* vision primitives (cv2.HoughLinesP on the full edge map, on the         *)
(* ROI-masked edge map and on the default-ROI edge map of the fallback)    *)
(* are inputs of a frame.                                                  *)
(***************************************************************************)
EXTENDS Integers, Sequences, FiniteSets, TLC

VARIABLES sm, call, n, hist, outs, run

vars == <<sm, call, n, hist, outs, run>>

None == <<>>

Abs(x) == IF x < 0 THEN -x ELSE x

\* Python int() of the rational a / b (b > 0): truncation toward zero.
TruncDiv(a, b) == IF a >= 0 THEN a \div b ELSE -((-a) \div b)

\* The smallest power of two that is >= q (q >= 1).
RECURSIVE CeilPow2(_, _)
CeilPow2(q, r) == IF r >= q THEN r ELSE CeilPow2(q, 2 * r)

\* The largest k with 5 * 2^k < c (c > 5).
RECURSIVE BinExp(_, _)
BinExp(c, k) == IF 5 * 2^(k + 1) < c THEN BinExp(c, k + 1) ELSE k

----------------------------------------------------------------------------
(* IEEE-754 double arithmetic of                                           *)
(*     int(self.alpha * a + (1 - self.alpha) * b),   alpha = 0.3.          *)
(* The doubles are 0.3 = A / 2^54 with 10 A = 3 * 2^54 - 2 and             *)
(* 1 - 0.3 = B / 2^53 with 10 B = 7 * 2^53 - 4.  Each product is rounded   *)
(* to 53 bits (nearest, ties to even), so with k the binary exponent of    *)
(* the product, fl(0.3 a) = (a A + d) / 2^54 where d moves a A to the      *)
(* nearest multiple of 2^k; only a A modulo 2^(k+1) is needed, which the   *)
(* low 16 bits of A give.  All errors are kept in units of 1/(10 * 2^54).  *)

temporal_alpha == 3

AlphaLow16 == 13107

BetaLow16 == 26214

\* Rounding step d of a * M to a multiple of 2^k, ties to even quotient.
RoundAdj(a, M16, k) ==
    IF k = 0 THEN 0
    ELSE LET m  == ((a % 2^k) * (M16 % 2^k)) % 2^k
             h  == 2^(k - 1)
             m2 == ((a % 2^(k + 1)) * (M16 % 2^(k + 1))) % 2^(k + 1)
         IN  IF m < h THEN -m
             ELSE IF m > h THEN 2^k - m
             ELSE IF m2 >= 2^k THEN h ELSE -h

Sign(a) == IF a < 0 THEN -1 ELSE 1

\* fl(0.3 * a) - 0.3 a, in units of 1/(10 * 2^54).
ErrAlpha(a) ==
    IF a = 0 THEN 0
    ELSE Sign(a) * (10 * RoundAdj(Abs(a), AlphaLow16, BinExp(6 * Abs(a), 0)) - 2 * Abs(a))

\* fl(0.7 * b) - 0.7 b, in units of 1/(10 * 2^54).
ErrBeta(b) ==
    IF b = 0 THEN 0
    ELSE Sign(b) * (20 * RoundAdj(Abs(b), BetaLow16, BinExp(7 * Abs(b), 0)) - 8 * Abs(b))

\* The truncated sum: q is the exact value T / 10 truncated toward zero, E
\* the error of the sum of the two rounded products.  When T / 10 is not an
\* integer the errors (< 2^-40) cannot reach the next integer; when it is
\* the integer q the result is q unless the sum, rounded again, stays more
\* than half a unit in the last place short of q.
TruncatedSum(T, q, E) ==
    IF T % 10 # 0 \/ q = 0 THEN q
    ELSE IF q > 0 THEN (IF -E > 10 * CeilPow2(q, 1) THEN q - 1 ELSE q)
    ELSE (IF E > 10 * CeilPow2(-q, 1) THEN q + 1 ELSE q)

\* int(alpha * new + (1 - alpha) * prev).
BlendCoord(new, prev) ==
    TruncatedSum(temporal_alpha * new + (10 - temporal_alpha) * prev,
                 TruncDiv(temporal_alpha * new + (10 - temporal_alpha) * prev, 10),
                 ErrAlpha(new) + ErrBeta(prev))

----------------------------------------------------------------------------
(* TemporalSmoother *)

NPix == 3

kPixels == 1..NPix

\* __init__: no stored line, no stored mask.
NewSmoother == [left_line |-> None, right_line |-> None, prev_mask |-> None]

\* smooth_line forgetting the stored line when the observation is absent.
smooth_line_dropout(line, prev_line) ==
    IF line = None THEN None
    ELSE IF prev_line = None THEN line
    ELSE << << BlendCoord(line[1][1], prev_line[1][1]),
               BlendCoord(line[1][2], prev_line[1][2]) >>,
            << BlendCoord(line[2][1], prev_line[2][1]),
               BlendCoord(line[2][2], prev_line[2][2]) >> >>

\* smooth_line blending a first observation against a zero line.
smooth_line_blend_first(line, prev_line) ==
    IF line = None THEN prev_line
    ELSE LET p == IF prev_line = None THEN << <<0, 0>>, <<0, 0>> >> ELSE prev_line
         IN  << << BlendCoord(line[1][1], p[1][1]), BlendCoord(line[1][2], p[1][2]) >>,
                << BlendCoord(line[2][1], p[2][1]), BlendCoord(line[2][2], p[2][2]) >> >>

smooth_line(line, prev_line) ==
    IF line = None THEN prev_line
    ELSE IF prev_line = None THEN line
    ELSE << << BlendCoord(line[1][1], prev_line[1][1]),
               BlendCoord(line[1][2], prev_line[1][2]) >>,
            << BlendCoord(line[2][1], prev_line[2][1]),
               BlendCoord(line[2][2], prev_line[2][2]) >> >>

\* The stored pair after an update, as stored and as returned.
Updated(S, l, r) ==
    [sm |-> [S EXCEPT !.left_line = l, !.right_line = r], left |-> l, right |-> r]

\* update returning the smoothed pair without storing it.
update_discards(S, left, right) ==
    [sm |-> S, left |-> smooth_line(left, S.left_line),
     right |-> smooth_line(right, S.right_line)]

\* update: returns the stored pair after smoothing each side.
update(S, left, right) ==
    Updated(S, smooth_line(left, S.left_line), smooth_line(right, S.right_line))

\* The mask blend truncated like the line blend instead of rounded.
addWeighted_truncating(new, prev) == BlendCoord(new, prev)

\* cv2.addWeighted on uint8 images: alpha * new + (1 - alpha) * prev per
\* pixel, saturate-cast with rounding to nearest (ties to even).
addWeighted(new, prev) ==
    LET T == temporal_alpha * new + (10 - temporal_alpha) * prev
        q == T \div 10
        r == T % 10
    IN  IF r < 5 THEN q
        ELSE IF r > 5 THEN q + 1
        ELSE IF q % 2 = 0 THEN q ELSE q + 1

\* The blended mask, stored and returned.
Blended(S, blended) == [sm |-> [S EXCEPT !.prev_mask = blended], ret |-> blended]

\* smooth_mask dropping the stored mask when no mask is passed.
smooth_mask_expires(S, mask) ==
    IF mask = None THEN [sm |-> [S EXCEPT !.prev_mask = None], ret |-> S.prev_mask]
    ELSE IF S.prev_mask = None
         THEN [sm |-> [S EXCEPT !.prev_mask = mask], ret |-> mask]
    ELSE Blended(S, [i \in kPixels |-> addWeighted(mask[i], S.prev_mask[i])])

\* smooth_mask returning a first mask without storing it.
smooth_mask_forgets(S, mask) ==
    IF mask = None THEN [sm |-> S, ret |-> S.prev_mask]
    ELSE IF S.prev_mask = None
         THEN [sm |-> S, ret |-> mask]
    ELSE Blended(S, [i \in kPixels |-> addWeighted(mask[i], S.prev_mask[i])])

smooth_mask(S, mask) ==
    IF mask = None THEN [sm |-> S, ret |-> S.prev_mask]
    ELSE IF S.prev_mask = None
         THEN [sm |-> [S EXCEPT !.prev_mask = mask], ret |-> mask]
    ELSE Blended(S, [i \in kPixels |-> addWeighted(mask[i], S.prev_mask[i])])

\* reset leaving the stored mask in place.
reset_keeps_mask(S) == [S EXCEPT !.left_line = None, !.right_line = None]

reset(S) == [S EXCEPT !.left_line = None, !.right_line = None, !.prev_mask = None]

----------------------------------------------------------------------------
(* LaneDetectionConfig defaults, as exact ratios *)

min_slope_num == 3

min_slope_den == 10

max_slope == 3

morph_kernel_size == 5

line_thickness == 10

----------------------------------------------------------------------------
(* classify_lines, fit_lane_line *)

\* The slope filter with both bounds exclusive.
KeepsSegmentStrict(dx, dy, wantLeft) ==
    /\ dx # 0
    /\ min_slope_den * Abs(dy) > min_slope_num * Abs(dx)
    /\ Abs(dy) < max_slope * Abs(dx)
    /\ ((dy * dx < 0) <=> wantLeft)

\* The segment passes the slope filter and belongs to the wanted side
\* (left: slope < 0, right: slope >= 0).
KeepsSegment(dx, dy, wantLeft) ==
    /\ dx # 0
    /\ ~ (min_slope_den * Abs(dy) < min_slope_num * Abs(dx))
    /\ ~ (Abs(dy) > max_slope * Abs(dx))
    /\ ((dy * dx < 0) <=> wantLeft)

\* The segments of one side, in the order of the input.
RECURSIVE SelectSide(_, _)
SelectSide(lines, wantLeft) ==
    IF lines = <<>> THEN <<>>
    ELSE (IF KeepsSegment(Head(lines)[3] - Head(lines)[1],
                          Head(lines)[4] - Head(lines)[2], wantLeft)
          THEN <<Head(lines)>> ELSE <<>>)
         \o SelectSide(Tail(lines), wantLeft)

classify_lines(lines) ==
    [left |-> SelectSide(lines, TRUE), right |-> SelectSide(lines, FALSE)]

RECURSIVE SumSeq(_)
SumSeq(s) == IF s = <<>> THEN 0 ELSE Head(s) + SumSeq(Tail(s))

\* height * y_top_ratio rounded to the nearest integer.
YTopRounded(height) == (6 * height + 5) \div 10

\* int(height * y_top_ratio), y_top_ratio = 0.6: the double product never
\* falls short of an integer 6 h / 10 by more than half a unit in the last
\* place, so the truncation is the exact floor.
YTop(height) == (6 * height) \div 10

\* The fitted x at row y from the sums over the cnt endpoints: with
\* D = cnt Syy - Sy^2 and Nm = cnt Sxy - Sx Sy the fit is m = Nm / D,
\* b = (Sx - m Sy) / cnt.  With all ys equal to c (D = 0, c # 0) polyfit's
\* lstsq gives the minimum-norm solution m = xbar / (2 c), b = xbar / 2.
FitX(cnt, Sx, Sy, Sxy, Syy, c, y) ==
    IF cnt * Syy - Sy * Sy # 0
    THEN TruncDiv((cnt * Sxy - Sx * Sy) * y * cnt + Sx * (cnt * Syy - Sy * Sy)
                      - (cnt * Sxy - Sx * Sy) * Sy,
                  cnt * (cnt * Syy - Sy * Sy))
    ELSE TruncDiv(Sx * (y + c), 2 * c * cnt)

FitLine(cnt, Sx, Sy, Sxy, Syy, c, height) ==
    IF cnt * Syy - Sy * Sy = 0 /\ c = 0 THEN None
    ELSE << <<FitX(cnt, Sx, Sy, Sxy, Syy, c, height), height>>,
            <<FitX(cnt, Sx, Sy, Sxy, Syy, c, YTop(height)), YTop(height)>> >>

\* Least-squares line x = m y + b through the segments' endpoints
\* (np.polyfit(ys, xs, 1)), taken over the rationals, evaluated at
\* y = height and y = int(0.6 height) and truncated.  use_polyfit is left
\* at its default (False).
fit_lane_line(lines, height) ==
    IF lines = <<>> THEN None
    ELSE FitLine(2 * Len(lines),
                 SumSeq([i \in 1..Len(lines) |-> lines[i][1] + lines[i][3]]),
                 SumSeq([i \in 1..Len(lines) |-> lines[i][2] + lines[i][4]]),
                 SumSeq([i \in 1..Len(lines) |->
                     lines[i][1] * lines[i][2] + lines[i][3] * lines[i][4]]),
                 SumSeq([i \in 1..Len(lines) |->
                     lines[i][2] * lines[i][2] + lines[i][4] * lines[i][4]]),
                 lines[1][2], height)

----------------------------------------------------------------------------
(* Rendering: cv2.fillPoly / cv2.line and the morphological clean-up, seen *)
(* at the probe points of the mask.                                        *)

ProbeX(i, width) == (i * width) \div (NPix + 1)

ProbeY(height) == (4 * height) \div 5

Min(a, b) == IF a < b THEN a ELSE b

Max(a, b) == IF a > b THEN a ELSE b

\* The row y crosses the line.
SpansRow(line, y) ==
    Min(line[1][2], line[2][2]) <= y /\ y <= Max(line[1][2], line[2][2])

\* The x coordinate of the line at row y.
LineX(line, y) ==
    LET x0 == line[1][1]
        y0 == line[1][2]
        x1 == line[2][1]
        y1 == line[2][2]
    IN  IF y1 = y0 THEN x0
        ELSE IF y1 > y0 THEN x0 + TruncDiv((x1 - x0) * (y - y0), y1 - y0)
        ELSE x0 + TruncDiv((x0 - x1) * (y - y0), y0 - y1)

\* The run of set pixels between the two edges at xl and xr, seen from a
\* probe at px: its length, 0 when the probe lies outside.
RunBetween(xl, xr, px) ==
    IF Min(xl, xr) <= px /\ px <= Max(xl, xr) THEN Abs(xr - xl) + 1 ELSE 0

\* Polygon through left[0], left[1], right[1], right[0], filled with 255:
\* for each probe the length of the horizontal run of set pixels through
\* it, 0 when the probe is not set.
FillPolyRuns(left, right, width, height) ==
    [i \in kPixels |->
        IF SpansRow(left, ProbeY(height)) /\ SpansRow(right, ProbeY(height))
        THEN RunBetween(LineX(left, ProbeY(height)), LineX(right, ProbeY(height)),
                        ProbeX(i, width))
        ELSE 0]

\* The probe at (px, y) lies on the thick line.
OnLine(line, px, y) ==
    /\ line # None
    /\ SpansRow(line, y)
    /\ 2 * Abs(px - LineX(line, y)) <= line_thickness

\* Thick centre-lines of the sides that are present.
LineRuns(left, right, width, height) ==
    [i \in kPixels |->
        IF \/ OnLine(left, ProbeX(i, width), ProbeY(height))
           \/ OnLine(right, ProbeX(i, width), ProbeY(height))
        THEN line_thickness
        ELSE 0]

\* Close then open with the elliptical kernel: a run of set pixels narrower
\* than the kernel is erased by the opening, wider runs are kept.
apply_morphological_cleanup(runs) ==
    [i \in kPixels |-> IF runs[i] >= morph_kernel_size THEN 255 ELSE 0]

Blank == [i \in kPixels |-> 0]

----------------------------------------------------------------------------
(* build_lane_mask_v2, build_lane_mask_single_lane,                        *)
(* process_frame_with_fallback.  A frame f carries its size (f.w, f.h) and *)
(* the three HoughLinesP outputs: f.full on the edge map of the enhanced   *)
(* frame, f.roi on that edge map masked by the adaptive ROI, f.fb on the   *)
(* raw frame's edge map masked by the default ROI.  The vanishing point,   *)
(* the curve info and the ROI polygon only select the edge pixels handed   *)
(* to the second HoughLinesP call, whose output is f.roi; night_mode       *)
(* selects the same enhance_low_light call in both branches.               *)

\* The absence paths returning None without consulting the smoother.
PrevMaskIgnored(S, attached) == None

\* The smoother's previous mask when one is attached and holds one.
PrevMaskOrNone(S, attached) ==
    IF attached /\ S.prev_mask # None THEN S.prev_mask ELSE None

\* Lines 581-584: the cleaned mask through the smoother, and the result.
V2Result(u, fill, m) ==
    [ret |-> m.ret, sm |-> m.sm, stage |-> "rendered",
     left |-> u.left, right |-> u.right, filled |-> fill]

\* Lines 562-579: polygon fill when selected and both sides are present,
\* thick lines otherwise, then the clean-up.
V2Render(f, S, attached, u, fill) ==
    V2Result(u, fill,
        IF attached
        THEN smooth_mask(u.sm, apply_morphological_cleanup(
                 IF fill THEN FillPolyRuns(u.left, u.right, f.w, f.h)
                 ELSE LineRuns(u.left, u.right, f.w, f.h)))
        ELSE [sm |-> S,
              ret |-> apply_morphological_cleanup(
                 IF fill THEN FillPolyRuns(u.left, u.right, f.w, f.h)
                 ELSE LineRuns(u.left, u.right, f.w, f.h))])

\* Lines 559-564: u is the pair of lines after the smoother's update.
V2Smoothed(f, S, attached, polygon_fill, u) ==
    V2Render(f, S, attached, u, polygon_fill /\ u.left # None /\ u.right # None)

\* The fits of the frame rendered without the smoother's update.
V2FittedUnsmoothed(f, S, attached, polygon_fill, left, right) ==
    IF left = None /\ right = None
    THEN [ret |-> PrevMaskOrNone(S, attached), sm |-> S, stage |-> "no_fit",
          left |-> None, right |-> None, filled |-> FALSE]
    ELSE V2Smoothed(f, S, attached, polygon_fill,
                    [sm |-> S, left |-> left, right |-> right])

\* The path of two absent fits clearing the smoother.
V2FittedForgets(f, S, attached, polygon_fill, left, right) ==
    IF left = None /\ right = None
    THEN [ret |-> PrevMaskOrNone(S, attached), sm |-> reset(S), stage |-> "no_fit",
          left |-> None, right |-> None, filled |-> FALSE]
    ELSE V2Smoothed(f, S, attached, polygon_fill,
                    IF attached THEN update(S, left, right)
                    ELSE [sm |-> S, left |-> left, right |-> right])

\* Lines 554-560: both fits absent, or the smoother's update.
V2Fitted(f, S, attached, polygon_fill, left, right) ==
    IF left = None /\ right = None
    THEN [ret |-> PrevMaskOrNone(S, attached), sm |-> S, stage |-> "no_fit",
          left |-> None, right |-> None, filled |-> FALSE]
    ELSE V2Smoothed(f, S, attached, polygon_fill,
                    IF attached THEN update(S, left, right)
                    ELSE [sm |-> S, left |-> left, right |-> right])

\* Lines 549-552: the fits of the two classified sides.
V2Classified(f, S, attached, polygon_fill, cl) ==
    V2Fitted(f, S, attached, polygon_fill,
             fit_lane_line(cl.left, f.h), fit_lane_line(cl.right, f.h))

\* build_lane_mask_v2 answering the no-segment path from the smoother.
build_lane_mask_v2_recalls(f, S, attached, polygon_fill) ==
    IF f.full = None
    THEN [ret |-> PrevMaskOrNone(S, attached), sm |-> S, stage |-> "no_lines",
          left |-> None, right |-> None, filled |-> FALSE]
    ELSE IF f.roi = None
    THEN [ret |-> PrevMaskOrNone(S, attached), sm |-> S, stage |-> "no_roi_lines",
          left |-> None, right |-> None, filled |-> FALSE]
    ELSE V2Classified(f, S, attached, polygon_fill, classify_lines(f.roi))

build_lane_mask_v2(f, S, attached, polygon_fill) ==
    IF f.full = None
    THEN [ret |-> None, sm |-> S, stage |-> "no_lines",
          left |-> None, right |-> None, filled |-> FALSE]
    ELSE IF f.roi = None
    THEN [ret |-> PrevMaskOrNone(S, attached), sm |-> S, stage |-> "no_roi_lines",
          left |-> None, right |-> None, filled |-> FALSE]
    ELSE V2Classified(f, S, attached, polygon_fill, classify_lines(f.roi))

\* int(width * 0.35) in double arithmetic: 0.35 is the double
\* (7 * 2^54 - 8) / (20 * 2^54), so when 0.35 width is an integer q the
\* product is q - 0.4 width / 2^54, which rounds back to q only if it is
\* within half a unit in the last place of q.
LaneWidthPixels(width) ==
    LET q == (35 * width) \div 100
    IN  IF (35 * width) % 100 = 0 /\ q > 0 /\ 2 * width > 5 * CeilPow2(q, 1)
        THEN q - 1
        ELSE q

ShiftLine(line, dx) ==
    << <<line[1][1] + dx, line[1][2]>>, <<line[2][1] + dx, line[2][2]>> >>

\* Lines 647-658 and 662-673: the polygon between the found line and the
\* estimated one; a singular fit leaves the mask empty.
SingleLaneMask(f, found, shift, side) ==
    IF found = None
    THEN [ret |-> apply_morphological_cleanup(Blank),
          left |-> None, right |-> None, side |-> side]
    ELSE IF side = "left"
    THEN [ret |-> apply_morphological_cleanup(
                      FillPolyRuns(found, ShiftLine(found, shift), f.w, f.h)),
          left |-> found, right |-> ShiftLine(found, shift), side |-> side]
    ELSE [ret |-> apply_morphological_cleanup(
                      FillPolyRuns(ShiftLine(found, -shift), found, f.w, f.h)),
          left |-> ShiftLine(found, -shift), right |-> found, side |-> side]

\* Lines 639-676: exactly one classified side, or None.
SingleLaneClassified(f, cl) ==
    IF cl.left # <<>> /\ cl.right = <<>>
    THEN SingleLaneMask(f, fit_lane_line(cl.left, f.h), LaneWidthPixels(f.w), "left")
    ELSE IF cl.right # <<>> /\ cl.left = <<>>
    THEN SingleLaneMask(f, fit_lane_line(cl.right, f.h), LaneWidthPixels(f.w), "right")
    ELSE [ret |-> None, left |-> None, right |-> None, side |-> "none"]

build_lane_mask_single_lane(f) ==
    IF f.fb = None
    THEN [ret |-> None, left |-> None, right |-> None, side |-> "none"]
    ELSE SingleLaneClassified(f, classify_lines(f.fb))

NoFallback == [ret |-> None, left |-> None, right |-> None, side |-> "skipped"]

\* Lines 712-715: the mask of build_lane_mask_v2 (v) if present, else the
\* single-lane result.
\* The fallback's mask stored as the smoother's previous mask.
WithFallbackStored(f, v) ==
    IF v.ret # None
    THEN [ret |-> v.ret, sm |-> v.sm, v2 |-> v, fb |-> NoFallback]
    ELSE [ret |-> build_lane_mask_single_lane(f).ret,
          sm |-> [v.sm EXCEPT !.prev_mask = build_lane_mask_single_lane(f).ret],
          v2 |-> v, fb |-> build_lane_mask_single_lane(f)]

WithFallback(f, v) ==
    IF v.ret # None
    THEN [ret |-> v.ret, sm |-> v.sm, v2 |-> v, fb |-> NoFallback]
    ELSE [ret |-> build_lane_mask_single_lane(f).ret, sm |-> v.sm, v2 |-> v,
          fb |-> build_lane_mask_single_lane(f)]

process_frame_with_fallback(f, S, attached, polygon_fill) ==
    WithFallback(f, build_lane_mask_v2(f, S, attached, polygon_fill))

----------------------------------------------------------------------------
(* detect_vanishing_point.  The coordinates of a HoughLinesP array are     *)
(* numpy int32 scalars: differences and products wrap modulo 2^32, the     *)
(* quotient by denom is a double.  A coordinate of an intersection is the  *)
(* reduced fraction <<num, den>>, den > 0, of the two wrapped integers.    *)

MaxInt32 == 2147483647

\* int32 a - b.
Sub32(a, b) ==
    IF b >= 0
    THEN IF a >= (-MaxInt32 - 1) + b THEN a - b
         ELSE (((a + MaxInt32) - b) + MaxInt32) + 2
    ELSE IF a <= MaxInt32 + b THEN a - b
         ELSE (((a - MaxInt32) - b) - MaxInt32) - 2

RECURSIVE Signed32(_, _, _)
\* The signed value of the 32-bit pattern hi * 2^16 + lo, negated first if
\* neg.
Signed32(hi, lo, neg) ==
    IF ~ neg
    THEN IF hi >= 32768 THEN (hi - 65536) * 65536 + lo ELSE hi * 65536 + lo
    ELSE IF lo = 0
         THEN Signed32((65536 - hi) % 65536, 0, FALSE)
         ELSE Signed32(65535 - hi, 65536 - lo, FALSE)

\* The low 32 bits of (a1 2^16 + a0) (b1 2^16 + b0) from 16-bit limbs, with
\* p0 and p1 the products of a0 and the low and high byte of b0.
MulLimbs(a0, a1, b0, b1, p0, p1, neg) ==
    Signed32(((p1 \div 256) + (((p1 % 256) * 256 + p0) \div 65536)
                 + ((a1 * b0) % 65536) + ((a0 * b1) % 65536)) % 65536,
             ((p1 % 256) * 256 + p0) % 65536, neg)

\* int32 a * b.
Mul32(a, b) ==
    IF a = 0 \/ b = 0 THEN 0
    ELSE IF Abs(a) <= MaxInt32 \div Abs(b) THEN a * b
    ELSE MulLimbs(Abs(a) % 65536, Abs(a) \div 65536,
                  Abs(b) % 65536, Abs(b) \div 65536,
                  (Abs(a) % 65536) * ((Abs(b) % 65536) % 256),
                  (Abs(a) % 65536) * ((Abs(b) % 65536) \div 256),
                  (a < 0) # (b < 0))

RECURSIVE GCD(_, _)
GCD(a, b) == IF b = 0 THEN a ELSE GCD(b, a % b)

\* The fraction num / den (den # 0) in lowest terms with a positive
\* denominator.
Frac(num, den) ==
    IF den < 0
    THEN << (-num) \div GCD(Abs(num), Abs(den)), (-den) \div GCD(Abs(num), Abs(den)) >>
    ELSE << num \div GCD(Abs(num), Abs(den)), den \div GCD(Abs(num), Abs(den)) >>

FracLess(p, q) == p[1] * q[2] < q[1] * p[2]

FracAdd(p, q) == Frac(p[1] * q[2] + q[1] * p[2], p[2] * q[2])

FracSub(p, q) == Frac(p[1] * q[2] - q[1] * p[2], p[2] * q[2])

\* The fraction left as it is.
FracUncapped(p) == p

\* min(p, 1.0).
FracMin1(p) == IF p[1] > p[2] THEN <<1, 1>> ELSE p

\* The largest e with den * 2^e <= num (num >= den).
RECURSIVE Log2Floor(_, _, _)
Log2Floor(num, den, e) ==
    IF den * 2^(e + 1) <= num THEN Log2Floor(num, den, e + 1) ELSE e

\* 2^k modulo 20 for k >= 2.
Pow2Mod20(k) == IF k % 4 = 0 THEN 16 ELSE IF k % 4 = 1 THEN 12
                ELSE IF k % 4 = 2 THEN 4 ELSE 8

\* py <= height * 0.7 for py exactly 7 height / 10.  The quotient py is the
\* double nearest to 7 h / 10 (m20 holds its position between two doubles
\* and the parity of the lower one); the product is the double nearest to
\* 7 h / 10 - 0.4 h / 2^53.
TopLimitReached(h, e, m20) ==
    LET r10  == m20 % 10
        up   == r10 > 5 \/ (r10 = 5 /\ m20 >= 10)
        X    == r10 * 2^(e + 1) - 4 * h
        half == 5 * 2^(e + 1)
    IN  IF up THEN X > half \/ (X = half /\ m20 >= 10)
        ELSE ~ (X < -half \/ (X = -half /\ m20 >= 10))

\* The acceptance test without the upper limit on py.
InBoundsNoTop(px, py, width, height) ==
    /\ 0 <= px[1]
    /\ px[1] <= width * px[2]
    /\ 0 <= py[1]

\* 0 <= px <= width and 0 <= py <= height * 0.7 (lines 151-152).
InBounds(px, py, width, height) ==
    /\ 0 <= px[1]
    /\ px[1] <= width * px[2]
    /\ 0 <= py[1]
    /\ \/ 10 * py[1] < 7 * height * py[2]
       \/ /\ 10 * py[1] = 7 * height * py[2]
          /\ TopLimitReached(height, Log2Floor(7 * height, 10, 0),
                 (7 * height * Pow2Mod20(52 - Log2Floor(7 * height, 10, 0))) % 20)

\* Lines 145-152 for one pair, from the wrapped differences and the two
\* wrapped determinants da = x1 y2 - y1 x2 and db = x3 y4 - y3 x4.
\* The numerator da * d34 - d12 * db of px (d = dx) and of py (d = dy).
PairNumer(da, d34, d12, db) == Sub32(Mul32(da, d34), Mul32(d12, db))

PairPoint(dx12, dy12, dx34, dy34, da, db, denom, width, height) ==
    IF denom = 0 THEN <<>>
    ELSE IF InBounds(Frac(PairNumer(da, dx34, dx12, db), denom),
                     Frac(PairNumer(da, dy34, dy12, db), denom),
                     width, height)
    THEN << << Frac(PairNumer(da, dx34, dx12, db), denom),
               Frac(PairNumer(da, dy34, dy12, db), denom) >> >>
    ELSE <<>>

PairDenom(dx12, dy12, dx34, dy34) ==
    Sub32(Mul32(dx12, dy34), Mul32(dy12, dx34))

\* The accepted intersection of segments a and b, as a sequence of zero or
\* one point.
Intersect(a, b, width, height) ==
    PairPoint(Sub32(a[1], a[3]), Sub32(a[2], a[4]),
              Sub32(b[1], b[3]), Sub32(b[2], b[4]),
              Sub32(Mul32(a[1], a[4]), Mul32(a[2], a[3])),
              Sub32(Mul32(b[1], b[4]), Mul32(b[2], b[3])),
              PairDenom(Sub32(a[1], a[3]), Sub32(a[2], a[4]),
                        Sub32(b[1], b[3]), Sub32(b[2], b[4])),
              width, height)

\* The loop of lines 139-152 from pair (i, j) on.
RECURSIVE Intersections(_, _, _, _, _)
Intersections(lines, i, j, width, height) ==
    IF i >= Len(lines) THEN <<>>
    ELSE IF j > Len(lines) THEN Intersections(lines, i + 1, i + 2, width, height)
    ELSE Intersect(lines[i], lines[j], width, height)
             \o Intersections(lines, i, j + 1, width, height)

\* v inserted into the ascending sequence s.
RECURSIVE InsertFrac(_, _)
InsertFrac(v, s) ==
    IF s = <<>> THEN <<v>>
    ELSE IF FracLess(Head(s), v) THEN <<Head(s)>> \o InsertFrac(v, Tail(s))
    ELSE <<v>> \o s

RECURSIVE SortFracs(_)
SortFracs(s) == IF s = <<>> THEN <<>> ELSE InsertFrac(Head(s), SortFracs(Tail(s)))

\* np.median of the sorted values: the middle one, or the mean of the two
\* middle ones.
MedianSorted(s) ==
    IF Len(s) % 2 = 1 THEN s[(Len(s) + 1) \div 2]
    ELSE Frac(FracAdd(s[Len(s) \div 2], s[Len(s) \div 2 + 1])[1],
              2 * FracAdd(s[Len(s) \div 2], s[Len(s) \div 2 + 1])[2])

Median(points, c) == MedianSorted(SortFracs([k \in 1..Len(points) |-> points[k][c]]))

\* sqrt(dx^2 + dy^2) < 50 for the offsets dx and dy, over their common
\* denominator.
Within50(dx, dy) ==
    /\ Abs(dx[1]) < 50 * dx[2]
    /\ Abs(dy[1]) < 50 * dy[2]
    /\ (dx[1] * dy[2]) * (dx[1] * dy[2]) + (dy[1] * dx[2]) * (dy[1] * dx[2])
           < 2500 * (dx[2] * dy[2]) * (dx[2] * dy[2])

\* Lines 157-165: the median point and the fraction of the points within
\* 50 pixels of it.
VanishingPointOf(points, cx, cy) ==
    [x |-> cx, y |-> cy,
     confidence |-> FracMin1(Frac(Cardinality({k \in 1..Len(points) :
                                      Within50(FracSub(points[k][1], cx),
                                               FracSub(points[k][2], cy))}),
                                  Len(points)))]

MedianPoint(points) ==
    IF Len(points) < 3 THEN None
    ELSE VanishingPointOf(points, Median(points, 1), Median(points, 2))

detect_vanishing_point(lines, height, width) ==
    IF lines = None \/ Len(lines) < 2 THEN None
    ELSE MedianPoint(Intersections(lines, 1, 2, width, height))

----------------------------------------------------------------------------
(* fit_lane_line with use_polyfit = True: np.polyfit(ys, xs, 2) over the   *)
(* rationals.  The rows enter as t = (y - r) / g with r the first row and  *)
(* g the greatest common divisor of the offsets, which leaves the fitted   *)
(* polynomial the same.                                                    *)

FracMul(p, q) == Frac(p[1] * q[1], p[2] * q[2])

RECURSIVE Pow(_, _)
Pow(b, k) == IF k = 0 THEN 1 ELSE b * Pow(b, k - 1)

RECURSIVE RowUnit(_, _)
RowUnit(lines, r) ==
    IF lines = <<>> THEN 0
    ELSE GCD(GCD(Abs(Head(lines)[2] - r), Abs(Head(lines)[4] - r)), RowUnit(Tail(lines), r))

\* The sum of x^e t^k over the endpoints.
PowSum(lines, r, g, e, k) ==
    SumSeq([i \in 1..Len(lines) |->
        Pow(lines[i][1], e) * Pow((lines[i][2] - r) \div g, k)
            + Pow(lines[i][3], e) * Pow((lines[i][4] - r) \div g, k)])

Det3(a, b, c, d, e, f, g, h, i) ==
    a * (e * i - f * h) - b * (d * i - f * g) + c * (d * h - e * g)

\* int(np.polyval(coeffs, y)) for coeffs = (da, db, dc) / d at t.
PolyX(da, db, dc, d, t) ==
    TruncDiv(FracAdd(FracAdd(FracMul(Frac(da, d), FracMul(t, t)),
                             FracMul(Frac(db, d), t)), Frac(dc, d))[1],
             FracAdd(FracAdd(FracMul(Frac(da, d), FracMul(t, t)),
                             FracMul(Frac(db, d), t)), Frac(dc, d))[2])

\* Lines 381-385 from the solution of the normal equations by Cramer's
\* rule.  With fewer than three different rows the system is rank
\* deficient and polyfit returns the minimum-norm solution of its scaled
\* system: the two x are then the values free.
QuadLine(da, db, dc, d, r, g, height, free) ==
    IF d = 0 THEN << <<free[1], height>>, <<free[2], YTop(height)>> >>
    ELSE << <<PolyX(da, db, dc, d, Frac(height - r, g)), height>>,
            <<PolyX(da, db, dc, d, Frac(YTop(height) - r, g)), YTop(height)>> >>

QuadFit(s0, s1, s2, s3, s4, t0, t1, t2, r, g, height, free) ==
    QuadLine(Det3(t2, s3, s2, t1, s2, s1, t0, s1, s0),
             Det3(s4, t2, s2, s3, t1, s1, s2, t0, s0),
             Det3(s4, s3, t2, s3, s2, t1, s2, s1, t0),
             Det3(s4, s3, s2, s3, s2, s1, s2, s1, s0),
             r, g, height, free)

QuadFitOn(lines, r, g, height, free) ==
    IF g = 0
    THEN IF r = 0 THEN None ELSE QuadLine(0, 0, 0, 0, r, 1, height, free)
    ELSE QuadFit(2 * Len(lines), PowSum(lines, r, g, 0, 1), PowSum(lines, r, g, 0, 2),
                 PowSum(lines, r, g, 0, 3), PowSum(lines, r, g, 0, 4),
                 PowSum(lines, r, g, 1, 0), PowSum(lines, r, g, 1, 1),
                 PowSum(lines, r, g, 1, 2), r, g, height, free)

\* fit_lane_line(lines, height, use_polyfit = True): the quadratic from
\* three endpoints on (line 380), the line of the default mode below.
fit_lane_line_polyfit(lines, height, free) ==
    IF lines = <<>> THEN None
    ELSE IF 2 * Len(lines) < 3 THEN fit_lane_line(lines, height)
    ELSE QuadFitOn(lines, lines[1][2], RowUnit(lines, lines[1][2]), height, free)

----------------------------------------------------------------------------
(* detect_curve_direction.  Slopes and confidences are fractions, trends    *)
(* doubles.                                                                *)

\* Lines 302-308: <<slope, y1 + y2>> of every segment with x1 # x2.
RECURSIVE SlopesWithY(_)
SlopesWithY(lines) ==
    IF lines = <<>> THEN <<>>
    ELSE (IF Head(lines)[3] = Head(lines)[1] THEN <<>>
          ELSE << << Frac(Head(lines)[4] - Head(lines)[2],
                          Head(lines)[3] - Head(lines)[1]),
                     Head(lines)[2] + Head(lines)[4] >> >>)
         \o SlopesWithY(Tail(lines))

\* v inserted into s, ascending in avg_y, before the entries of equal avg_y.
RECURSIVE InsertByY(_, _)
InsertByY(v, s) ==
    IF s = <<>> THEN <<v>>
    ELSE IF Head(s)[2] < v[2] THEN <<Head(s)>> \o InsertByY(v, Tail(s))
    ELSE <<v>> \o s

\* list.sort(key = avg_y): stable.
RECURSIVE SortByY(_)
SortByY(s) == IF s = <<>> THEN <<>> ELSE InsertByY(Head(s), SortByY(Tail(s)))

\* The double nearest to p / q in units of 2^-60: a double is the record
\* [r, e] standing for r + e / 2^60, r the value in exact arithmetic and e
\* the rounding error accumulated so far, both fractions.
FracSign(p) == IF p[1] < 0 THEN -1 ELSE 1

\* 2^k modulo m.
RECURSIVE PowMod(_, _)
PowMod(k, m) ==
    IF k < 16 THEN 2^k % m
    ELSE (PowMod(k \div 2, m) * PowMod(k - k \div 2, m)) % m

\* The smallest k with num * 2^k >= den (0 < num < den).
RECURSIVE Log2Below(_, _, _)
Log2Below(num, den, k) == IF num * 2^k >= den THEN k ELSE Log2Below(num, den, k + 1)

\* floor(log2(num / den)) for num / den > 0.
BinaryExponent(num, den) ==
    IF num >= den THEN Log2Floor(num, den, 0) ELSE -Log2Below(num, den, 1)

\* num / den = 2^m.
IsPow2(num, den, m) == IF m >= 0 THEN num = den * 2^m ELSE num * 2^(-m) = den

\* The binary exponent of r + e / 2^60: a value just below a power of two
\* lies in the binade under it.
ExponentAt(r, e, m) ==
    IF IsPow2(Abs(r[1]), r[2], m) /\ FracSign(r) * e[1] < 0 THEN m - 1 ELSE m

ExponentOf(r, e) == ExponentAt(r, e, BinaryExponent(Abs(r[1]), r[2]))

\* fl + fr to the nearest integer, a tie to the one that makes the
\* significand (of parity odd at fl = 0) even.
RoundAt(fl, fr, odd) ==
    IF 2 * fr[1] < fr[2] THEN fl
    ELSE IF 2 * fr[1] > fr[2] THEN fl + 1
    ELSE IF (odd + fl) % 2 = 0 THEN fl ELSE fl + 1

NearestEven(w, odd) == RoundAt(w[1] \div w[2], Frac(w[1] % w[2], w[2]), odd)

\* |r| 2^(52 - m) modulo 2 den: the fraction of the significand and the
\* parity of its integer part.
RoundLow(num, den, m) == (num * PowMod(52 - m, 2 * den)) % (2 * den)

\* The part of |r + e / 2^60| below its last place, in units of that place.
RoundW(e, sign, m, low, den) ==
    FracAdd(Frac(low % den, den), FracMul(e, Frac(sign, 2^(8 + m))))

\* The error after rounding to the last place.
RoundShift(e, sign, m, w, n0) ==
    FracAdd(e, FracMul(FracSub(<<n0, 1>>, w), <<sign * 2^(8 + m), 1>>))

RoundIn(r, e, sign, m, low) ==
    RoundShift(e, sign, m, RoundW(e, sign, m, low, r[2]),
               NearestEven(RoundW(e, sign, m, low, r[2]),
                           IF low >= r[2] THEN 1 ELSE 0))

\* r + e / 2^60 rounded to the nearest double, ties to even.
Fl(r, e) ==
    IF r[1] = 0 THEN [r |-> r, e |-> e]
    ELSE [r |-> r,
          e |-> RoundIn(r, e, FracSign(r), ExponentOf(r, e),
                        RoundLow(Abs(r[1]), r[2], ExponentOf(r, e)))]

FlZero == [r |-> <<0, 1>>, e |-> <<0, 1>>]

FlAdd(a, b) == Fl(FracAdd(a.r, b.r), FracAdd(a.e, b.e))

FlSub(a, b) == Fl(FracSub(a.r, b.r), FracSub(a.e, b.e))

\* a / k for a positive integer k.
FlDivInt(a, k) == Fl(Frac(a.r[1], a.r[2] * k), Frac(a.e[1], a.e[2] * k))

\* a < b.  Values of different r differ by far more than their errors.
FlLess(a, b) == IF a.r = b.r THEN FracLess(a.e, b.e) ELSE FracLess(a.r, b.r)

\* The literal 0.1: the double 1/10 + (32 / 5) / 2^60.
FlTenth(sign) == [r |-> <<sign, 10>>, e |-> <<sign * 32, 5>>]

\* The slopes s[from..to] as doubles, summed from the left.
RECURSIVE FlSumSlopes(_, _, _)
FlSumSlopes(s, from, to) ==
    IF from > to THEN FlZero
    ELSE FlAdd(FlSumSlopes(s, from, to - 1), Fl(s[to][1], <<0, 1>>))

\* np.mean of the slopes s[from..to] in double arithmetic.
FlMeanSlope(s, from, to) == FlDivInt(FlSumSlopes(s, from, to), to - from + 1)

\* Lines 310-320 on the sorted pairs, in double arithmetic.
FlSlopeTrend(s) ==
    IF Len(s) < 2 THEN FlZero
    ELSE FlSub(FlMeanSlope(s, Len(s) \div 2 + 1, Len(s)), FlMeanSlope(s, 1, Len(s) \div 2))

\* compute_slope_trend, as the double it returns.
compute_slope_trend(lines) ==
    IF Len(lines) < 2 THEN FlZero ELSE FlSlopeTrend(SortByY(SlopesWithY(lines)))

\* Lines 327-335: the tests of the combined trend c against the doubles
\* 0.1 and -0.1.
CurveDirection(c) ==
    IF FlLess(FlTenth(1), c) THEN "right"
    ELSE IF FlLess(c, FlTenth(-1)) THEN "left"
    ELSE "straight"

\* Lines 327-342 for the trends lt and rt and the combined trend c.  The
\* confidence is the value of its formula at the exact c.r, of which the
\* code returns a double within rounding.
CurveInfoOf(lt, rt, c) ==
    IF CurveDirection(c) = "straight"
    THEN [direction |-> "straight",
          confidence |-> FracSub(<<1, 1>>, FracMin1(Frac(10 * Abs(c.r[1]), c.r[2]))),
          left_slope_trend |-> lt.r, right_slope_trend |-> rt.r,
          left_trend_err |-> lt.e, right_trend_err |-> rt.e]
    ELSE [direction |-> CurveDirection(c),
          confidence |-> FracMin1(Frac(10 * Abs(c.r[1]), 3 * c.r[2])),
          left_slope_trend |-> lt.r, right_slope_trend |-> rt.r,
          left_trend_err |-> lt.e, right_trend_err |-> rt.e]

\* Line 325: (left_trend + right_trend) / 2.
CombinedTrend(lt, rt) == FlDivInt(FlAdd(lt, rt), 2)

detect_curve_direction(left_lines, right_lines) ==
    CurveInfoOf(compute_slope_trend(left_lines), compute_slope_trend(right_lines),
                CombinedTrend(compute_slope_trend(left_lines),
                              compute_slope_trend(right_lines)))

----------------------------------------------------------------------------
(* region_of_interest_adaptive: the four corners handed to cv2.fillPoly.   *)
(* The vanishing point and the confidences are fractions; the corners are  *)
(* the exact sums truncated toward zero, which is what int() gives on the  *)
(* doubles for coordinates that are binary fractions.                      *)

\* Python int() of a fraction.
IntOf(p) == TruncDiv(p[1], p[2])

\* Line 191.
UsesVanishingPoint(vanishing_point) ==
    /\ vanishing_point # None
    /\ FracLess(<<3, 10>>, vanishing_point.confidence)

\* Lines 196-201 and 214-218: percent / 100 * width * confidence, negative
\* for a curve to the left, when the curve turns toward direction.
CurveAdjust(width, curve_info, percent, direction) ==
    IF curve_info = None THEN <<0, 1>>
    ELSE IF curve_info.direction # direction THEN <<0, 1>>
    ELSE FracMul(Frac(IF direction = "left" THEN -(percent * width)
                      ELSE percent * width, 100),
                 curve_info.confidence)

\* Lines 195-201.
curve_adjustment(width, curve_info) ==
    FracAdd(CurveAdjust(width, curve_info, 5, "left"),
            CurveAdjust(width, curve_info, 5, "right"))

\* The whole top width on each side of the vanishing point.
TopHalfWidthWhole(width) == Frac(15 * width, 100)

\* Lines 194, 205-206: top_width / 2 with top_width = width * 0.15.
TopHalfWidth(width) == Frac(15 * width, 200)

\* Lines 203-210.
VanishingPolygon(width, height, vp, adj) ==
    << <<IntOf(FracAdd(Frac(8 * width, 100), adj)), height>>,
       <<IntOf(FracAdd(FracSub(vp.x, TopHalfWidth(width)), adj)), IntOf(vp.y)>>,
       <<IntOf(FracAdd(FracAdd(vp.x, TopHalfWidth(width)), adj)), IntOf(vp.y)>>,
       <<IntOf(FracAdd(Frac(92 * width, 100), adj)), height>> >>

\* int(height * top_offset) with the default top_offset = 0.58 in double
\* arithmetic: 0.58 is the double 58/100 - 72 / (25 * 2^56), so when
\* 0.58 height is an integer q the product falls short of q by
\* 72 height / (25 * 2^56) and rounds back to q only if that is within half
\* a unit in the last place below q.
TopRow(height) ==
    LET q == (58 * height) \div 100
    IN  IF (58 * height) % 100 = 0 /\ q > 0 /\ 18 * height > 25 * CeilPow2(q, 1)
        THEN q - 1
        ELSE q

\* Lines 220-227.
DefaultPolygon(width, height, left_adjust, right_adjust) ==
    << <<IntOf(FracAdd(Frac(8 * width, 100), left_adjust)), height>>,
       <<IntOf(FracAdd(Frac(46 * width, 100), left_adjust)), TopRow(height)>>,
       <<IntOf(FracAdd(Frac(54 * width, 100), right_adjust)), TopRow(height)>>,
       <<IntOf(FracAdd(Frac(92 * width, 100), right_adjust)), height>> >>

region_of_interest_adaptive(width, height, vanishing_point, curve_info) ==
    IF UsesVanishingPoint(vanishing_point)
    THEN [branch |-> "vanishing_point",
          polygon |-> VanishingPolygon(width, height, vanishing_point,
                                       curve_adjustment(width, curve_info))]
    ELSE [branch |-> "default",
          polygon |-> DefaultPolygon(width, height,
                                     CurveAdjust(width, curve_info, 3, "left"),
                                     CurveAdjust(width, curve_info, 3, "right"))]

----------------------------------------------------------------------------
(* Inputs *)

MaxSteps == 3

MaxFrames == 3

MaxMaskSteps == 2

Streams == {1, 2}

\* Frame size <<width, height>> of the video of each stream.
FrameSize(s) == IF s = 1 THEN <<640, 400>> ELSE <<720, 480>>

SegL == <<100, 400, 140, 300>>

SegL2 == <<128, 400, 168, 300>>

SegR == <<540, 400, 500, 300>>

SegFlat == <<100, 300, 300, 310>>

\* A frame with zero edges: no detector finds a segment.
BlackInput == [full |-> None, roi |-> None, fb |-> None]

\* Both lane sides visible.
BothInput == [full |-> <<SegL, SegR>>, roi |-> <<SegL, SegR>>, fb |-> <<SegL, SegR>>]

\* Only a left marking inside the adaptive ROI.
LeftInput == [full |-> <<SegL, SegR>>, roi |-> <<SegL2>>, fb |-> <<SegL, SegR>>]

\* Segments in the full frame, none inside the adaptive ROI.
RoiNoneInput == [full |-> <<SegL, SegR>>, roi |-> None, fb |-> <<SegL>>]

\* Only an unusable (near-horizontal) segment inside either ROI.
FlatInput == [full |-> <<SegFlat>>, roi |-> <<SegFlat>>, fb |-> <<SegFlat>>]

\* A dim frame: the enhanced frame yields no segment, the raw frame does.
DimLeftInput == [full |-> None, roi |-> None, fb |-> <<SegL>>]

DimRightInput == [full |-> None, roi |-> None, fb |-> <<SegR>>]

DimBothInput == [full |-> None, roi |-> None, fb |-> <<SegL, SegR>>]

\* The HoughLinesP outputs of the frames a caller passes in.
FrameInputs == {BlackInput, BothInput, LeftInput, RoiNoneInput, FlatInput,
                DimLeftInput, DimRightInput, DimBothInput}

V2Inputs == {BlackInput, BothInput, LeftInput, RoiNoneInput, FlatInput}

StreamInputs == {BothInput, LeftInput, RoiNoneInput}

MkFrame(s, in) ==
    [w |-> FrameSize(s)[1], h |-> FrameSize(s)[2],
     full |-> in.full, roi |-> in.roi, fb |-> in.fb]

NoFrame == [w |-> 0, h |-> 0, full |-> None, roi |-> None, fb |-> None]

LineA == << <<100, 400>>, <<164, 240>> >>

LineB == << <<101, 400>>, <<163, 240>> >>

LineC == << <<540, 400>>, <<476, 240>> >>

LeftInputs == {None, LineA, LineB}

RightInputs == {None, LineC}

MaskInputs == {None, [i \in kPixels |-> 255], [i \in kPixels |-> IF i = 1 THEN 255 ELSE 0]}

\* Masks with the same value at every probe, one per uint8 value.
UniformMasks == { [i \in kPixels |-> v] : v \in 0..255 }

NoV2 == [ret |-> None, sm |-> NewSmoother, stage |-> "none",
         left |-> None, right |-> None, filled |-> FALSE]

NoCall == [op |-> "init", s |-> 1, prev_s |-> 1, f |-> NoFrame, att |-> FALSE, fill |-> FALSE,
           argL |-> None, argR |-> None, argM |-> None, pre |-> NewSmoother,
           v2 |-> NoV2, fb |-> NoFallback, ret |-> None, retL |-> None, retR |-> None,
           arg |-> None, res |-> None, raised |-> FALSE]

----------------------------------------------------------------------------
(* run_pipeline.py: run_once and the watch loop of main over one output    *)
(* directory.  run.file is the state file pipeline_state.json, absent or   *)
(* the list of processed sources; an entry of the input directory is a     *)
(* name, and resolve gives the path it stands for.                         *)

\* The entries the input directory may hold, in the order of sorted():
\* two export directories and a link to the first one.
EntryNames == <<"a", "b", "c">>

\* str(source.resolve()) (line 398).
resolve(name) == IF name = "c" THEN "/exports/a" ELSE "/exports/" \o name

SourcePaths == {resolve(EntryNames[i]) : i \in 1..Len(EntryNames)}

\* list_sources (lines 56-65): the entries present, sorted by name.
list_sources(entries) == SelectSeq(EntryNames, LAMBDA name : name \in entries)

\* load_state (lines 68-72).
load_state(file) == IF file = None THEN <<>> ELSE file

\* The sourcePath values of a processed list (lines 386-390).
RecordedPaths(processed) == {processed[i].sourcePath : i \in 1..Len(processed)}

NoStep == [op |-> "none", source |-> "", path |-> "", ok |-> FALSE,
           file |-> None, loaded |-> {}]

\* No process runs, the input directory is empty and no state file exists.
NewRun ==
    [file |-> None, entries |-> {}, pc |-> "exit", watch |-> FALSE,
     max_exports |-> 0, state |-> <<>>, processed_paths |-> {},
     sources |-> <<>>, processed_count |-> 0, calls |-> 0,
     done |-> [p \in SourcePaths |-> 0], last |-> NoStep]

MaxRuns == 3

lane == <<sm, call, n, hist, outs>>

\* An export bundle appears in the input directory.
Export(name) ==
    /\ name \notin run.entries
    /\ run' = [run EXCEPT !.entries = @ \cup {name}]
    /\ UNCHANGED lane

\* main (lines 414-421) is started with --watch and --max-exports.
Main(watch, max_exports) ==
    /\ run.pc = "exit"
    /\ run.calls < MaxRuns
    /\ run' = [run EXCEPT !.pc = "start", !.watch = watch,
                          !.max_exports = max_exports]
    /\ UNCHANGED lane

\* run_once has returned: the watch loop sleeps and calls it again, main
\* without --watch ends.
AfterReturn(watch) == IF watch THEN "start" ELSE "exit"

\* Lines 382-396: the state is loaded and the sources are listed; without
\* sources run_once returns 0.
RunOnceBegin ==
    /\ run.pc = "start"
    /\ run.calls < MaxRuns
    /\ run' = [run EXCEPT
                 !.calls = @ + 1,
                 !.state = load_state(run.file),
                 !.processed_paths = RecordedPaths(load_state(run.file)),
                 !.sources = list_sources(run.entries),
                 !.processed_count = 0,
                 !.pc = IF list_sources(run.entries) = <<>>
                        THEN AfterReturn(run.watch) ELSE "loop",
                 !.last = [NoStep EXCEPT !.op = "begin", !.file = run.file,
                                         !.loaded = RecordedPaths(load_state(run.file))]]
    /\ UNCHANGED lane

\* Lines 399-400: a source whose path was in the loaded state is passed
\* over.
SkipSource ==
    /\ run.pc = "loop"
    /\ resolve(Head(run.sources)) \in run.processed_paths
    /\ run' = [run EXCEPT
                 !.sources = Tail(@),
                 !.pc = IF Tail(run.sources) = <<>>
                        THEN AfterReturn(run.watch) ELSE "loop",
                 !.last = [NoStep EXCEPT !.op = "skip", !.source = Head(run.sources),
                                         !.path = resolve(Head(run.sources)),
                                         !.file = run.file,
                                         !.loaded = run.processed_paths]]
    /\ UNCHANGED lane

\* The processed list with the source appended (lines 404-406).
Recorded(state, source) ==
    Append(state, [sourcePath |-> resolve(source), runDir |-> source])

\* The loop ends: no source is left, or max_exports sources were processed
\* (lines 408-410).
LoopEnds(sources, max_exports, processed_count) ==
    \/ Tail(sources) = <<>>
    \/ max_exports # 0 /\ processed_count >= max_exports

\* Lines 401-410 for a source process_source returns on: it is appended to
\* the state, the state is saved and the count is advanced.
SourceProcessed(source) ==
    run' = [run EXCEPT
              !.state = Recorded(run.state, source),
              !.file = Recorded(run.state, source),
              !.processed_count = @ + 1,
              !.sources = Tail(@),
              !.done = [@ EXCEPT ![resolve(source)] = @ + 1],
              !.pc = IF LoopEnds(run.sources, run.max_exports, run.processed_count + 1)
                     THEN AfterReturn(run.watch) ELSE "loop",
              !.last = [NoStep EXCEPT !.op = "process", !.source = source,
                                      !.path = resolve(source), !.ok = TRUE,
                                      !.file = run.file,
                                      !.loaded = run.processed_paths]]

\* process_source raises: the exception leaves run_once and main.
SourceRaised(source) ==
    run' = [run EXCEPT
              !.pc = "exit",
              !.last = [NoStep EXCEPT !.op = "process", !.source = source,
                                      !.path = resolve(source), !.ok = FALSE,
                                      !.file = run.file,
                                      !.loaded = run.processed_paths]]

\* Lines 401-410 for the next source, which is not in the loaded state.
ProcessSource(ok) ==
    /\ run.pc = "loop"
    /\ resolve(Head(run.sources)) \notin run.processed_paths
    /\ IF ok THEN SourceProcessed(Head(run.sources))
       ELSE SourceRaised(Head(run.sources))
    /\ UNCHANGED lane

NextPipeline ==
    \/ \E name \in {EntryNames[i] : i \in 1..Len(EntryNames)} : Export(name)
    \/ \E watch \in BOOLEAN, max_exports \in 0..1 : Main(watch, max_exports)
    \/ RunOnceBegin
    \/ SkipSource
    \/ \E ok \in BOOLEAN : ProcessSource(ok)

----------------------------------------------------------------------------
(* State machine.  sm[s] is the smoother owned by stream s, call the last  *)
(* operation with its arguments, the smoother state before it (pre) and    *)
(* its results; hist[s] and outs[s] are the frames stream s has processed  *)
(* and the masks returned for them.                                        *)

Init ==
    /\ sm = [s \in Streams |-> NewSmoother]
    /\ call = NoCall
    /\ n = 0
    /\ hist = [s \in Streams |-> <<>>]
    /\ outs = [s \in Streams |-> <<>>]
    /\ run = NewRun

\* The effect of a pipeline call of stream s on smoother o with result r.
Processed(s, o, f, att, fill, r) ==
    /\ sm' = [sm EXCEPT ![o] = r.sm]
    /\ call' = [NoCall EXCEPT !.op = "process", !.s = s, !.prev_s = call.s,
                              !.f = f, !.att = att, !.fill = fill,
                              !.pre = sm[o], !.v2 = r.v2, !.fb = r.fb,
                              !.ret = r.ret]

\* The pipeline call of every stream using one shared smoother.
ProcessCoreShared(s, in, att, fill) ==
    Processed(s, 1, MkFrame(s, in), att, fill,
              process_frame_with_fallback(MkFrame(s, in), sm[1], att, fill))

\* process_frame_with_fallback(frame, temporal_smoother = sm[s] or None).
ProcessCore(s, in, att, fill) ==
    Processed(s, s, MkFrame(s, in), att, fill,
              process_frame_with_fallback(MkFrame(s, in), sm[s], att, fill))

ProcessFrame(s, in, att) ==
    /\ n < MaxSteps
    /\ n' = n + 1
    /\ ProcessCore(s, in, att, TRUE)
    /\ UNCHANGED <<hist, outs, run>>

Built(s, f, att, fill, v) ==
    /\ sm' = [sm EXCEPT ![s] = v.sm]
    /\ call' = [NoCall EXCEPT !.op = "v2", !.s = s, !.f = f, !.att = att,
                              !.fill = fill, !.pre = sm[s], !.v2 = v,
                              !.ret = v.ret]

\* build_lane_mask_v2 called on its own.
BuildLaneMask(s, in, att, fill) ==
    /\ n < MaxSteps
    /\ n' = n + 1
    /\ Built(s, MkFrame(s, in), att, fill,
             build_lane_mask_v2(MkFrame(s, in), sm[s], att, fill))
    /\ UNCHANGED <<hist, outs, run>>

LinesUpdated(s, left, right, u) ==
    /\ sm' = [sm EXCEPT ![s] = u.sm]
    /\ call' = [NoCall EXCEPT !.op = "update", !.s = s, !.argL = left,
                              !.argR = right, !.pre = sm[s],
                              !.retL = u.left, !.retR = u.right]

\* TemporalSmoother.update(left, right).
UpdateLines(s, left, right) ==
    /\ n < MaxSteps
    /\ n' = n + 1
    /\ LinesUpdated(s, left, right, update(sm[s], left, right))
    /\ UNCHANGED <<hist, outs, run>>

MaskSmoothed(s, mask, m) ==
    /\ sm' = [sm EXCEPT ![s] = m.sm]
    /\ call' = [NoCall EXCEPT !.op = "smooth_mask", !.s = s, !.argM = mask,
                              !.pre = sm[s], !.ret = m.ret]

SmoothMaskCore(s, mask) == MaskSmoothed(s, mask, smooth_mask(sm[s], mask))

\* TemporalSmoother.smooth_mask(mask).
SmoothMask(s, mask) ==
    /\ n < MaxSteps
    /\ n' = n + 1
    /\ SmoothMaskCore(s, mask)
    /\ UNCHANGED <<hist, outs, run>>

\* TemporalSmoother.reset().
Reset(s) ==
    /\ n < MaxSteps
    /\ n' = n + 1
    /\ sm' = [sm EXCEPT ![s] = reset(sm[s])]
    /\ call' = [NoCall EXCEPT !.op = "reset", !.s = s, !.pre = sm[s]]
    /\ UNCHANGED <<hist, outs, run>>

\* One stream's smoother under pipeline calls and direct calls.
Next ==
    \/ \E in \in FrameInputs, att \in BOOLEAN : ProcessFrame(1, in, att)
    \/ \E in \in V2Inputs, att \in BOOLEAN, fill \in BOOLEAN :
           BuildLaneMask(1, in, att, fill)
    \/ \E left \in LeftInputs, right \in RightInputs : UpdateLines(1, left, right)
    \/ \E mask \in MaskInputs : SmoothMask(1, mask)
    \/ Reset(1)

Spec == Init /\ [][Next]_vars

----------------------------------------------------------------------------
(* Two streams, each feeding its frames to the pipeline with its own       *)
(* smoother, in any interleaving.                                          *)

StreamFrame(s, in) ==
    /\ Len(hist[s]) < MaxFrames
    /\ ProcessCore(s, in, TRUE, TRUE)
    /\ hist' = [hist EXCEPT ![s] = Append(@, in)]
    /\ outs' = [outs EXCEPT ![s] = Append(@, call'.ret)]
    /\ UNCHANGED <<n, run>>

NextStreams == \E s \in Streams, in \in StreamInputs : StreamFrame(s, in)

SpecStreams == Init /\ [][NextStreams]_vars

\* Stream s processed alone: its frames, in order, through
\* process_frame_with_fallback with a smoother that starts fresh.
RECURSIVE Alone(_, _, _, _)
RECURSIVE AloneNext(_, _, _, _)

AloneNext(s, frames, masks, r) == Alone(s, frames, r.sm, Append(masks, r.ret))

Alone(s, frames, S, masks) ==
    IF frames = <<>> THEN [sm |-> S, outs |-> masks]
    ELSE AloneNext(s, Tail(frames), masks,
             process_frame_with_fallback(MkFrame(s, Head(frames)), S, TRUE, TRUE))

----------------------------------------------------------------------------
(* smooth_mask on one smoother: the first mask is any uniform uint8 image, *)
(* later ones repeat the stored mask or are fresh binary renders.          *)

MaskArgs(S) ==
    IF S.prev_mask = None THEN UniformMasks
    ELSE {S.prev_mask} \cup (MaskInputs \ {None})

SmoothMaskStep(s, mask) ==
    /\ n < MaxMaskSteps
    /\ n' = n + 1
    /\ SmoothMaskCore(s, mask)
    /\ UNCHANGED <<hist, outs, run>>

NextMask == \E mask \in MaskArgs(sm[1]) : SmoothMaskStep(1, mask)

SpecMask == Init /\ [][NextMask]_vars

----------------------------------------------------------------------------
(* build_lane_mask_v2 from the raw frame on (lines 499-507).  A scene is   *)
(* the average brightness of the frame with the HoughLinesP outputs on the *)
(* frame as it is (raw) and on its CLAHE and gamma corrected version       *)
(* (enh).                                                                  *)

brightness_threshold == 60

\* CLAHE and gamma correction applied whatever the brightness.
enhance_always(scene) == [frame |-> scene.enh, enhanced |-> TRUE]

\* enhance_low_light: the frame unchanged at or above the threshold.
enhance_low_light(scene) ==
    IF scene.brightness >= brightness_threshold
    THEN [frame |-> scene.raw, enhanced |-> FALSE]
    ELSE [frame |-> scene.enh, enhanced |-> TRUE]

\* The night_mode branch calling a routine that always enhances.
processed_frame_forced(scene, night_mode) ==
    IF night_mode THEN enhance_always(scene) ELSE enhance_low_light(scene)

\* Lines 504-507: both branches call enhance_low_light.
processed_frame(scene, night_mode) ==
    IF night_mode THEN enhance_low_light(scene) ELSE enhance_low_light(scene)

\* build_lane_mask_v2(frame, temporal_smoother, night_mode, polygon_fill) on
\* a frame of stream s.
build_lane_mask_v2_scene(s, scene, S, attached, polygon_fill, night_mode) ==
    build_lane_mask_v2(MkFrame(s, processed_frame(scene, night_mode).frame),
                       S, attached, polygon_fill)

\* Dark, threshold and bright scenes; enhancement changes what is detected.
Scenes ==
    [brightness : {30, 60, 120}, raw : {BlackInput, BothInput},
     enh : {BothInput, LeftInput}]

MaxSceneSteps == 2

BuildLaneMaskScene(s, scene, att, fill, night_mode) ==
    /\ n < MaxSceneSteps
    /\ n' = n + 1
    /\ sm' = [sm EXCEPT ![s] =
                 build_lane_mask_v2_scene(s, scene, sm[s], att, fill, night_mode).sm]
    /\ call' = [NoCall EXCEPT
                   !.op = "v2", !.s = s, !.att = att, !.fill = fill, !.pre = sm[s],
                   !.f = MkFrame(s, processed_frame(scene, night_mode).frame),
                   !.arg = [scene |-> scene, night_mode |-> night_mode],
                   !.v2 = build_lane_mask_v2_scene(s, scene, sm[s], att, fill, night_mode),
                   !.ret = build_lane_mask_v2_scene(s, scene, sm[s], att, fill, night_mode).ret]
    /\ UNCHANGED <<hist, outs, run>>

NextScenes ==
    \E scene \in Scenes, att \in BOOLEAN, fill \in BOOLEAN, night_mode \in BOOLEAN :
        BuildLaneMaskScene(1, scene, att, fill, night_mode)

SpecScenes == Init /\ [][NextScenes]_vars

----------------------------------------------------------------------------
(* One smoother under pipeline calls on frames of two sizes: the frames of *)
(* its own stream s and frames of the size of stream t.  A frame of        *)
(* another size is passed only while the smoother holds a mask, so the     *)
(* stored mask always has the size of stream s.                            *)

\* cv2.addWeighted (line 106) raises cv2.error when the two images differ
\* in size: the call reached the blend with a stored mask of another size.
BlendRaises(S, attached, v, size, stored) ==
    /\ attached
    /\ v.stage = "rendered"
    /\ S.prev_mask # None
    /\ size # stored

\* The exception leaves the call after update (line 560) stored the lines.
Raised(s, f, att, fill, v) ==
    /\ sm' = [sm EXCEPT ![s] = [v.sm EXCEPT !.prev_mask = sm[s].prev_mask]]
    /\ call' = [NoCall EXCEPT !.op = "process", !.s = s, !.prev_s = call.s,
                              !.f = f, !.att = att, !.fill = fill,
                              !.pre = sm[s], !.raised = TRUE]

ProcessSizedWith(s, t, f, att, fill, v) ==
    IF BlendRaises(sm[s], att, v, FrameSize(t), FrameSize(s))
    THEN Raised(s, f, att, fill, v)
    ELSE Processed(s, s, f, att, fill, WithFallback(f, v))

\* process_frame_with_fallback(frame, temporal_smoother = sm[s] or None)
\* on a frame of the size of stream t.
ProcessSized(s, t, in, att) ==
    /\ n < MaxSteps
    /\ n' = n + 1
    /\ (att /\ t # s) => sm[s].prev_mask # None
    /\ ProcessSizedWith(s, t, MkFrame(t, in), att, TRUE,
                        build_lane_mask_v2(MkFrame(t, in), sm[s], att, TRUE))
    /\ UNCHANGED <<hist, outs, run>>

NextSizes ==
    \E t \in Streams, in \in FrameInputs, att \in BOOLEAN : ProcessSized(1, t, in, att)

SpecSizes == Init /\ [][NextSizes]_vars

\* One smoother under build_lane_mask_v2 calls, on its own and inside
\* process_frame_with_fallback, on frames of either size, and reset.
NextMemory ==
    \/ \E in \in V2Inputs, att \in BOOLEAN, fill \in BOOLEAN :
           BuildLaneMask(1, in, att, fill)
    \/ \E t \in Streams, in \in FrameInputs, att \in BOOLEAN : ProcessSized(1, t, in, att)
    \/ Reset(1)

SpecMemory == Init /\ [][NextMemory]_vars

----------------------------------------------------------------------------
(* The stateless functions called on their own: call.arg is the argument   *)
(* record and call.res the value returned.  They read and write no state,  *)
(* so a behaviour is one call from the initial state.                      *)

Called(op, arg, res) ==
    /\ n = 0
    /\ n' = 1
    /\ call' = [NoCall EXCEPT !.op = op, !.arg = arg, !.res = res]
    /\ UNCHANGED <<sm, hist, outs, run>>

\* Segments of slope -0.3, 0.3, -3 and 3 (the bounds of the filter), just
\* outside them (-0.29, -3.1), vertical, and inside the range.
SegMinL == <<100, 400, 200, 370>>

SegMinR == <<100, 370, 200, 400>>

SegMaxL == <<100, 400, 110, 370>>

SegMaxR == <<100, 370, 110, 400>>

SegBelowMin == <<100, 400, 200, 371>>

SegAboveMax == <<100, 400, 110, 369>>

SegVertical == <<100, 400, 100, 300>>

ClassifySegments == {SegMinL, SegMinR, SegMaxL, SegMaxR, SegBelowMin,
                     SegAboveMax, SegVertical, SegL, SegFlat}

MaxLines == 3

\* The HoughLinesP arrays classify_lines is called on.
ClassifyInputs == UNION { [1..k -> ClassifySegments] : k \in 1..MaxLines }

ClassifyCall(lines) == Called("classify", lines, classify_lines(lines))

\* Segments on lines through (320, 200) and (320, 210), a line crossing
\* them far from there, a parallel pair, two lines along the rows
\* 0.7 * 400 and 0.7 * 720, and lines that cross low in the frame.
VanishingSegments ==
    {<<120, 400, 220, 300>>, <<520, 400, 420, 300>>, <<220, 400, 270, 300>>,
     <<415, 400, 365, 300>>, <<0, 300, 100, 250>>, <<140, 400, 240, 300>>,
     <<100, 280, 300, 280>>, <<101, 504, 301, 504>>, <<200, 390, 400, 310>>,
     <<102, 350, 302, 350>>}

VanishingSizes == {<<640, 400>>, <<1280, 720>>}

\* The HoughLinesP arrays detect_vanishing_point is called on: absent, or
\* up to MaxLines + 1 different segments.
VanishingInputs ==
    {None} \cup
    { lines \in UNION { [1..k -> VanishingSegments] : k \in 1..(MaxLines + 1) } :
          \A i \in 1..(Len(lines) - 1) : lines[i][1] < lines[i + 1][1] }

\* The two diagonals of a 1920x1080 frame, a vertical segment through its
\* centre and two short segments that cross at (960, 540).
WideSegments ==
    {<<0, 1080, 1920, 0>>, <<1920, 1080, 0, 0>>, <<960, 1080, 960, 100>>,
     <<760, 740, 860, 640>>, <<1160, 740, 1060, 640>>}

WideSize == <<1920, 1080>>

WideInputs ==
    { lines \in UNION { [1..k -> WideSegments] : k \in 2..MaxLines } :
          \A i \in 1..(Len(lines) - 1) : lines[i][1] < lines[i + 1][1] }

VanishingCalls ==
    (VanishingInputs \X VanishingSizes) \cup (WideInputs \X {WideSize})

VanishingPointCall(lines, size) ==
    Called("vanishing_point",
           [lines |-> lines, width |-> size[1], height |-> size[2]],
           detect_vanishing_point(lines, size[2], size[1]))

\* Left segments of slope -2.5, -2.4, -0.5 and -2.1 at different rows and
\* a vertical one; right segments of slope 2.5, 2.4, 0.5 and 2.1.
CurveLeftSegments ==
    {<<100, 400, 140, 300>>, <<100, 400, 125, 340>>, <<200, 250, 300, 200>>,
     <<150, 300, 200, 195>>, SegVertical}

CurveRightSegments ==
    {<<540, 400, 500, 300>>, <<540, 400, 515, 340>>, <<440, 250, 340, 200>>,
     <<490, 300, 440, 195>>}

MaxSide == 2

CurveInputs(segments) == UNION { [1..k -> segments] : k \in 0..MaxSide }

\* Left segments of slope -0.9, -0.7, -0.66 and -0.46 on two rows: pairs
\* of them have a trend of exactly 0.2 or -0.2, a combined trend of exactly
\* 0.1 or -0.1 with no segment on the right.
CurveBoundarySegments ==
    {<<100, 300, 200, 210>>, <<100, 400, 200, 330>>, <<100, 300, 200, 234>>,
     <<100, 400, 200, 354>>, <<100, 300, 200, 230>>, <<100, 400, 200, 310>>}

CurveBoundaryInputs == [1..2 -> CurveBoundarySegments]

CurveCall(left, right) ==
    Called("curve", [left_lines |-> left, right_lines |-> right],
           detect_curve_direction(left, right))

\* Left segments over the rows 400..300, 350..300 and 400..350.
FitSegments == {SegL, SegL2, <<120, 350, 140, 300>>, <<100, 400, 124, 350>>}

FitInputs == UNION { [1..k -> FitSegments] : k \in 0..MaxSide }

FitHeights == {400, 401, 402, 403, 404, 720}

\* The x a rank-deficient quadratic fit may return.
FreeXs == {<<100, 164>>, <<0, 640>>}

FitCall(lines, height, use_polyfit, free) ==
    Called("fit", [lines |-> lines, height |-> height, use_polyfit |-> use_polyfit],
           IF use_polyfit THEN fit_lane_line_polyfit(lines, height, free)
           ELSE fit_lane_line(lines, height))

\* Vanishing points inside and at the edge of the frame, with confidences
\* below, at and above 0.3.
RoiVanishingPoints ==
    {None} \cup [x : {<<10, 1>>, <<639, 2>>, <<633, 1>>},
                 y : {<<200, 1>>, <<481, 2>>},
                 confidence : {<<3, 10>>, <<1, 3>>, <<1, 1>>}]

RoiCurves ==
    {None} \cup [direction : {"left", "right", "straight"},
                 confidence : {<<1, 2>>, <<1, 1>>}]

RoiCall(size, vanishing_point, curve_info) ==
    Called("roi", [width |-> size[1], height |-> size[2],
                   vanishing_point |-> vanishing_point, curve_info |-> curve_info],
           region_of_interest_adaptive(size[1], size[2], vanishing_point, curve_info))

NextGeom ==
    \/ \E lines \in FitInputs, height \in FitHeights, use_polyfit \in BOOLEAN,
          free \in FreeXs : FitCall(lines, height, use_polyfit, free)
    \/ \E lines \in ClassifyInputs : ClassifyCall(lines)
    \/ \E c \in VanishingCalls : VanishingPointCall(c[1], c[2])
    \/ \E left \in CurveInputs(CurveLeftSegments) \cup CurveBoundaryInputs,
          right \in CurveInputs(CurveRightSegments) : CurveCall(left, right)
    \/ \E size \in VanishingSizes, vanishing_point \in RoiVanishingPoints,
          curve_info \in RoiCurves : RoiCall(size, vanishing_point, curve_info)

SpecGeom == Init /\ [][NextGeom]_vars

SpecPipeline == Init /\ [][NextPipeline]_vars

----------------------------------------------------------------------------
(* Properties *)

IsPipeline == call.op \in {"process", "v2"}

\* No detector finds a segment in the frame.
IsBlack(f) == f.full = None /\ f.roi = None /\ f.fb = None

\* Both fits of build_lane_mask_v2 are absent.
BothFitsAbsent(f) ==
    /\ f.roi # None
    /\ fit_lane_line(classify_lines(f.roi).left, f.h) = None
    /\ fit_lane_line(classify_lines(f.roi).right, f.h) = None

\* The main pipeline finds no lanes in the frame.
NoLanes(f) == f.full = None \/ f.roi = None \/ BothFitsAbsent(f)

\* C1: with a smoother attached, the pipeline on an all-black frame returns
\* absent when the smoother holds no mask and the smoother's previous mask,
\* left unchanged, once it holds one.
C1_BlackFrameUsesMemory ==
    (IsPipeline /\ call.att /\ IsBlack(call.f)) =>
        /\ call.ret = call.pre.prev_mask
        /\ sm[call.s].prev_mask = call.pre.prev_mask

\* C2: in process_frame_with_fallback a frame without lanes is resolved by
\* the smoother's previous mask if one is stored, else by the single-lane
\* fallback, else absent; the fallback result is never returned while the
\* attached smoother holds a previous mask.
C2_MemoryBeforeFallback ==
    (call.op = "process" /\ call.att /\ NoLanes(call.f)) =>
        /\ call.ret = IF call.pre.prev_mask # None
                      THEN call.pre.prev_mask
                      ELSE build_lane_mask_single_lane(call.f).ret
        /\ (call.pre.prev_mask # None => call.fb.side = "skipped")

\* C3: in build_lane_mask_v2, when the ROI re-detection yields no segments
\* or both fits are absent, the result is the previous mask of an attached
\* smoother that holds one, and absent otherwise.
C3_RoiAbsenceUsesMemory ==
    (IsPipeline /\ call.f.full # None /\ (call.f.roi = None \/ BothFitsAbsent(call.f))) =>
        call.v2.ret = IF call.att /\ call.pre.prev_mask # None
                      THEN call.pre.prev_mask
                      ELSE None

\* A build_lane_mask_v2 call whose ROI re-detection found nothing returned
\* the mask the attached smoother held.
C3_Witness ==
    /\ call.op = "v2"
    /\ call.att
    /\ call.f.full # None
    /\ call.f.roi = None
    /\ call.pre.prev_mask # None
    /\ call.ret = call.pre.prev_mask

\* 0.35 width in whole pixels.
AssumedLaneWidth(width) == (35 * width) \div 100

\* C4: when the fallback finds segments of exactly one side, the missing
\* side is the found line with both x shifted by 0.35 width (added for a
\* missing right side, subtracted for a missing left side) and both y
\* unchanged; with zero or two sides found the fallback yields absent.
C4_FallbackShift ==
    (call.op = "process" /\ call.fb.side # "skipped" /\ call.f.fb # None) =>
        /\ (classify_lines(call.f.fb).left # <<>> /\ classify_lines(call.f.fb).right = <<>>) =>
               /\ call.fb.left = fit_lane_line(classify_lines(call.f.fb).left, call.f.h)
               /\ call.fb.right = ShiftLine(call.fb.left, AssumedLaneWidth(call.f.w))
        /\ (classify_lines(call.f.fb).right # <<>> /\ classify_lines(call.f.fb).left = <<>>) =>
               /\ call.fb.right = fit_lane_line(classify_lines(call.f.fb).right, call.f.h)
               /\ call.fb.left = ShiftLine(call.fb.right, -AssumedLaneWidth(call.f.w))
        /\ ((classify_lines(call.f.fb).left = <<>>) <=> (classify_lines(call.f.fb).right = <<>>)) =>
               call.fb.ret = None

Coords == {<<1, 1>>, <<1, 2>>, <<2, 1>>, <<2, 2>>}

\* The update moved every differing coordinate of the stored line strictly
\* closer to the observed one.
StrictlyCloser(obs, before, after) ==
    (obs # None /\ before # None) =>
        \A c \in Coords :
            before[c[1]][c[2]] # obs[c[1]][c[2]] =>
                Abs(after[c[1]][c[2]] - obs[c[1]][c[2]])
                    < Abs(before[c[1]][c[2]] - obs[c[1]][c[2]])

\* C5: under a constant observed line, every updateLines call strictly
\* decreases the distance between each stored endpoint coordinate and the
\* observed coordinate for as long as they differ.
C5_StrictConvergence ==
    call.op = "update" =>
        /\ StrictlyCloser(call.argL, call.pre.left_line, sm[call.s].left_line)
        /\ StrictlyCloser(call.argR, call.pre.right_line, sm[call.s].right_line)

\* C6: updateLines(absent, absent) returns the stored pair and leaves the
\* stored lines and the stored mask unchanged.
C6_UpdateAbsentKeepsState ==
    (call.op = "update" /\ call.argL = None /\ call.argR = None) =>
        /\ call.retL = call.pre.left_line
        /\ call.retR = call.pre.right_line
        /\ sm[call.s] = call.pre

\* updateLines(absent, absent) was called on a smoother holding both lines
\* and a mask.
C6_Witness ==
    /\ call.op = "update"
    /\ call.argL = None
    /\ call.argR = None
    /\ call.pre.left_line # None
    /\ call.pre.right_line # None
    /\ call.pre.prev_mask # None
    /\ call.retL = call.pre.left_line

\* C7: on a smoother with no stored lines, updateLines(L, R) returns
\* exactly (L, R) and stores that pair.
C7_FreshUpdateAdopts ==
    (call.op = "update" /\ call.pre.left_line = None /\ call.pre.right_line = None) =>
        /\ call.retL = call.argL
        /\ call.retR = call.argR
        /\ sm[call.s].left_line = call.argL
        /\ sm[call.s].right_line = call.argR

\* updateLines(L, R) with both lines present was called on a smoother
\* without stored lines, after earlier calls.
C7_Witness ==
    /\ call.op = "update"
    /\ n >= 2
    /\ call.pre.left_line = None
    /\ call.pre.right_line = None
    /\ call.argL = LineB
    /\ call.argR = LineC
    /\ sm[call.s].left_line = LineB

\* C8: smoothMask(M) with the stored mask already equal to M returns M and
\* leaves the stored mask equal to M, for every pixel value in 0..255.
C8_SmoothMaskIdempotent ==
    (call.op = "smooth_mask" /\ call.argM # None /\ call.pre.prev_mask = call.argM) =>
        /\ call.ret = call.argM
        /\ sm[call.s].prev_mask = call.argM

\* smoothMask was called again with the stored mask, of pixel value 3.
C8_Witness ==
    /\ call.op = "smooth_mask"
    /\ call.argM = [i \in kPixels |-> 3]
    /\ call.pre.prev_mask = call.argM
    /\ call.ret = call.argM

\* C9: after reset() the stored lines and mask are absent and the smoother
\* behaves as a fresh one: the next updateLines(L, R) returns (L, R), the
\* next smoothMask(M) returns M, and a pipeline frame without detections
\* returns absent.
C9_ResetIsFresh ==
    [][ call.op = "reset" =>
            /\ sm[call.s] = NewSmoother
            /\ call'.op = "update" =>
                   (call'.retL = call'.argL /\ call'.retR = call'.argR)
            /\ call'.op = "smooth_mask" => call'.ret = call'.argM
            /\ (call'.op = "v2" /\ call'.att /\ NoLanes(call'.f)) => call'.ret = None
            /\ (call'.op = "process" /\ call'.att /\ IsBlack(call'.f)) => call'.ret = None
      ]_vars

\* reset() was called on a smoother holding both lines and a mask.
C9_Witness ==
    /\ call.op = "reset"
    /\ call.pre.left_line # None
    /\ call.pre.right_line # None
    /\ call.pre.prev_mask # None
    /\ sm[call.s] = NewSmoother

\* C10: with interleaved streams that each own a smoother, every stream's
\* returned masks and smoother state equal those of the stream processed
\* alone.
C10_StreamsIndependent ==
    \A s \in Streams :
        Alone(s, hist[s], NewSmoother, <<>>) = [sm |-> sm[s], outs |-> outs[s]]

\* Stream 1 processed a frame, then stream 2, then stream 1 again, and both
\* smoothers hold different masks.
C10_Witness ==
    /\ call.op = "process"
    /\ call.s = 1
    /\ call.prev_s = 2
    /\ call.pre.prev_mask # None
    /\ sm[1].prev_mask # None
    /\ sm[2].prev_mask # None
    /\ sm[1] # sm[2]

\* The slope of the segment is defined and its magnitude lies in
\* [min_slope, max_slope], bounds included.
SlopeInRange(seg) ==
    /\ seg[3] # seg[1]
    /\ min_slope_num * Abs(seg[3] - seg[1]) <= min_slope_den * Abs(seg[4] - seg[2])
    /\ Abs(seg[4] - seg[2]) <= max_slope * Abs(seg[3] - seg[1])

SlopeNegative(seg) == (seg[4] - seg[2] < 0) # (seg[3] - seg[1] < 0)

AcceptedLeft(seg) == SlopeInRange(seg) /\ SlopeNegative(seg)

AcceptedRight(seg) == SlopeInRange(seg) /\ ~ SlopeNegative(seg)

\* C11: classify_lines puts every segment with non-zero horizontal extent
\* and slope magnitude within [min_slope, max_slope], bounds included, in
\* exactly one of left/right (left if the slope is negative, right
\* otherwise) with multiplicity and order kept, and every other segment in
\* neither.
C11_ClassifyPartitions ==
    call.op = "classify" =>
        /\ call.res.left = SelectSeq(call.arg, AcceptedLeft)
        /\ call.res.right = SelectSeq(call.arg, AcceptedRight)

\* classify_lines was called on a -0.3 segment twice, around a vertical
\* one, and on a segment of slope 3 with one just above it.
C11_Witness ==
    /\ call.op = "classify"
    /\ \/ /\ call.arg = <<SegMinL, SegVertical, SegMinL>>
          /\ call.res.left = <<SegMinL, SegMinL>>
          /\ call.res.right = <<>>
       \/ /\ call.arg = <<SegMaxR, SegAboveMax, SegMinR>>
          /\ call.res.right = <<SegMaxR, SegMinR>>

\* C12: every vanishing point returned by detect_vanishing_point has
\* 0 <= x <= width and 0 <= y <= 0.7 height.
C12_VanishingPointInFrame ==
    (call.op = "vanishing_point" /\ call.res # None) =>
        /\ 0 <= call.res.x[1]
        /\ call.res.x[1] <= call.arg.width * call.res.x[2]
        /\ 0 <= call.res.y[1]
        /\ 10 * call.res.y[1] <= 7 * call.arg.height * call.res.y[2]

\* detect_vanishing_point returned a point on the row 0.7 * 400 with one of
\* three intersections near it.
C12_Witness ==
    /\ call.op = "vanishing_point"
    /\ call.arg.height = 400
    /\ Len(call.arg.lines) = 3
    /\ call.res # None
    /\ call.res.x = <<240, 1>>
    /\ call.res.y = <<280, 1>>
    /\ call.res.confidence = <<1, 3>>

\* C13: every confidence produced lies in [0, 1]: the confidence of a
\* vanishing point and the confidence of the curve detector in its three
\* direction branches.
C13_ConfidenceInUnitInterval ==
    /\ (call.op = "vanishing_point" /\ call.res # None) =>
           (0 <= call.res.confidence[1] /\ call.res.confidence[1] <= call.res.confidence[2])
    /\ call.op = "curve" =>
           (0 <= call.res.confidence[1] /\ call.res.confidence[1] <= call.res.confidence[2])

\* detect_curve_direction found a right curve from a combined trend above
\* 0.3, with confidence 1.
C13_Witness ==
    /\ call.op = "curve"
    /\ call.res.direction = "right"
    /\ 10 * (call.res.left_slope_trend[1] * call.res.right_slope_trend[2]
               + call.res.right_slope_trend[1] * call.res.left_slope_trend[2])
           > 6 * call.res.left_slope_trend[2] * call.res.right_slope_trend[2]
    /\ call.res.confidence = <<1, 1>>

\* C14: every lane line returned by fit_lane_line has endpoint0.y = height
\* and endpoint1.y = round(height * y_top_ratio), for every height, in the
\* linear and in the quadratic mode.
C14_FitRowsRounded ==
    (call.op = "fit" /\ call.res # None) =>
        /\ call.res[1][2] = call.arg.height
        /\ call.res[2][2] = (6 * call.arg.height + 5) \div 10

\* C14 (amended): every lane line returned by fit_lane_line has
\* endpoint0.y = height and endpoint1.y = height * y_top_ratio truncated
\* toward zero, for every height, in the linear and in the quadratic mode.
C14_FitRowsTruncated ==
    (call.op = "fit" /\ call.res # None) =>
        /\ call.res[1][2] = call.arg.height
        /\ 10 * call.res[2][2] <= 6 * call.arg.height
        /\ 6 * call.arg.height < 10 * (call.res[2][2] + 1)

\* A quadratic fit through three rows in a frame of height 401 returned a
\* line from row 401 to row 240.
C14_Witness ==
    /\ call.op = "fit"
    /\ call.arg.use_polyfit
    /\ call.arg.height = 401
    /\ call.arg.lines = <<SegL, <<120, 350, 140, 300>> >>
    /\ call.res # None
    /\ call.res[1][2] = 401
    /\ call.res[2][2] = 240

\* C15: for any sequence of well-formed frames, with or without a smoother
\* attached, no pipeline call raises an error.
C15_NoCallRaises == IsPipeline => ~ call.raised

C17_NoSegmentsReturnsAbsent ==
    (IsPipeline /\ call.f.full = None) =>
        /\ call.v2.ret = None
        /\ call.v2.sm = call.pre
        /\ (call.op = "v2" => call.ret = None /\ sm[call.s] = call.pre)

\* build_lane_mask_v2 found no segment in the full frame and returned absent
\* although the attached smoother held a previous mask.
C17_Witness ==
    /\ call.op = "v2"
    /\ call.att
    /\ call.f.full = None
    /\ call.pre.prev_mask # None
    /\ call.ret = None
    /\ sm[call.s].prev_mask = call.pre.prev_mask

\* alpha new + (1 - alpha) previous, truncated toward zero, for an endpoint
\* coordinate. alpha is 3/10.
ExactBlend(new, prev) == TruncDiv(temporal_alpha * new + (10 - temporal_alpha) * prev, 10)

\* One side of updateLines as a function of that side alone.
SideUpdated(arg, stored) ==
    IF arg = None THEN stored
    ELSE IF stored = None THEN arg
    ELSE << <<ExactBlend(arg[1][1], stored[1][1]), ExactBlend(arg[1][2], stored[1][2])>>,
            <<ExactBlend(arg[2][1], stored[2][1]), ExactBlend(arg[2][2], stored[2][2])>> >>

\* C18: updateLines treats the two sides independently: an absent
\* observation keeps the side's stored line, a side without stored line
\* adopts the observation as it is, and otherwise each of the four endpoint
\* coordinates becomes alpha new + (1 - alpha) previous truncated to an
\* integer; a side's outcome is a function of that side's observation and
\* stored line only.
C18_SidesIndependent ==
    call.op = "update" =>
        /\ sm[call.s].left_line = SideUpdated(call.argL, call.pre.left_line)
        /\ sm[call.s].right_line = SideUpdated(call.argR, call.pre.right_line)
        /\ call.retL = sm[call.s].left_line
        /\ call.retR = sm[call.s].right_line

\* C19: smoothMask(absent) returns the stored mask, absent if none is
\* stored, and changes no smoother state; smoothMask(M) on a smoother
\* without stored mask returns M unmodified and stores it, so that a
\* following smoothMask(absent) returns M.
C19_SmoothMaskAbsentAndFirst ==
    call.op = "smooth_mask" =>
        /\ call.argM = None =>
               /\ call.ret = call.pre.prev_mask
               /\ sm[call.s] = call.pre
        /\ (call.argM # None /\ call.pre.prev_mask = None) =>
               /\ call.ret = call.argM
               /\ sm[call.s] = [call.pre EXCEPT !.prev_mask = call.argM]
               /\ smooth_mask(sm[call.s], None).ret = call.argM
               /\ smooth_mask(sm[call.s], None).sm = sm[call.s]

\* smoothMask(absent) returned a mask that an earlier smoothMask(M) had
\* stored in the smoother.
C19_Witness ==
    /\ call.op = "smooth_mask"
    /\ call.argM = None
    /\ call.pre.prev_mask # None
    /\ call.ret = call.pre.prev_mask
    /\ sm[call.s] = call.pre

\* The shift the curve gives every x of the vanishing-point polygon.
ClaimedShift(width, curve_info) ==
    IF curve_info = None THEN <<0, 1>>
    ELSE IF curve_info.direction = "left"
    THEN FracMul(Frac(-(5 * width), 100), curve_info.confidence)
    ELSE IF curve_info.direction = "right"
    THEN FracMul(Frac(5 * width, 100), curve_info.confidence)
    ELSE <<0, 1>>

\* The vanishing-point polygon with the apex corners half on each side of
\* vp.x and every x moved by shift, in whole pixels.
ClaimedPolygon(width, height, vp, half, shift) ==
    << <<IntOf(FracAdd(Frac(8 * width, 100), shift)), height>>,
       <<IntOf(FracAdd(FracSub(vp.x, half), shift)), IntOf(vp.y)>>,
       <<IntOf(FracAdd(FracAdd(vp.x, half), shift)), IntOf(vp.y)>>,
       <<IntOf(FracAdd(Frac(92 * width, 100), shift)), height>> >>

\* The vanishing-point branch is taken exactly for a vanishing point of
\* confidence above 0.3, and its polygon has the top half-width half.
RoiFollowsVanishingPoint(arg, res, half) ==
    /\ res.branch = "vanishing_point" <=>
           (arg.vanishing_point # None
            /\ FracLess(<<3, 10>>, arg.vanishing_point.confidence))
    /\ res.branch = "vanishing_point" =>
           res.polygon = ClaimedPolygon(arg.width, arg.height, arg.vanishing_point, half,
                                        ClaimedShift(arg.width, arg.curve_info))

\* C20 as stated: region_of_interest_adaptive uses the vanishing-point
\* polygon exactly when a vanishing point is present with confidence
\* strictly greater than 0.3; the apex corners lie at vp.x minus and plus a
\* top half-width of 0.15 width at height vp.y, the base corners at
\* 0.08 width and 0.92 width at the image bottom, and all four x are shifted
\* by -0.05 width confidence for a left curve, +0.05 width confidence for a
\* right curve, 0 otherwise.
C20_ApexHalfWidthFifteen ==
    call.op = "roi" =>
        RoiFollowsVanishingPoint(call.arg, call.res, Frac(15 * call.arg.width, 100))

\* C20: region_of_interest_adaptive uses the vanishing-point polygon exactly
\* when a vanishing point is present with confidence strictly greater than
\* 0.3; the apex corners lie at vp.x minus and plus a top half-width of
\* 0.075 width (a top width of 0.15 width) at height vp.y, the base corners
\* at 0.08 width and 0.92 width at the image bottom, all four x are shifted
\* by -0.05 width confidence for a left curve, +0.05 width confidence for a
\* right curve, 0 otherwise, and every coordinate is truncated toward zero.
C20_ApexHalfWidthSevenAndHalf ==
    call.op = "roi" =>
        RoiFollowsVanishingPoint(call.arg, call.res, Frac(15 * call.arg.width, 200))

\* The polygon was built around a vanishing point of confidence 1/3 for a
\* curve to the left, the left apex corner falling left of the frame.
C20_Witness ==
    /\ call.op = "roi"
    /\ call.arg.vanishing_point # None
    /\ call.arg.curve_info # None
    /\ call.arg.vanishing_point.confidence = <<1, 3>>
    /\ call.arg.vanishing_point.x = <<10, 1>>
    /\ call.arg.curve_info.direction = "left"
    /\ call.res.branch = "vanishing_point"
    /\ call.res.polygon[2][1] < 0

\* The shift of the fixed trapezoid's corners on one side: 0.03 width
\* confidence toward the curve when the curve turns to that side.
ClaimedSideShift(width, curve_info, side) ==
    IF curve_info = None THEN <<0, 1>>
    ELSE IF curve_info.direction # side THEN <<0, 1>>
    ELSE IF side = "left"
    THEN FracMul(Frac(-(3 * width), 100), curve_info.confidence)
    ELSE FracMul(Frac(3 * width, 100), curve_info.confidence)

\* The fixed trapezoid in whole pixels, apex at 0.58 height.
ClaimedTrapezoid(width, height, left_shift, right_shift) ==
    << <<IntOf(FracAdd(Frac(8 * width, 100), left_shift)), height>>,
       <<IntOf(FracAdd(Frac(46 * width, 100), left_shift)), IntOf(Frac(58 * height, 100))>>,
       <<IntOf(FracAdd(Frac(54 * width, 100), right_shift)), IntOf(Frac(58 * height, 100))>>,
       <<IntOf(FracAdd(Frac(92 * width, 100), right_shift)), height>> >>

\* C21: with the vanishing point absent or of confidence at most 0.3,
\* region_of_interest_adaptive uses the fixed trapezoid (base at 8% and 92%
\* of the width, apex at 46% and 54% of the width, apex height
\* topOffset height) and shifts only the side toward the curve: the two left
\* corners by -0.03 width confidence for a left curve, the two right corners
\* by +0.03 width confidence for a right curve, no corner for a straight or
\* absent curve.
C21_DefaultTrapezoid ==
    (call.op = "roi" /\ ~ (call.arg.vanishing_point # None
                           /\ FracLess(<<3, 10>>, call.arg.vanishing_point.confidence))) =>
        /\ call.res.branch = "default"
        /\ call.res.polygon =
               ClaimedTrapezoid(call.arg.width, call.arg.height,
                                ClaimedSideShift(call.arg.width, call.arg.curve_info, "left"),
                                ClaimedSideShift(call.arg.width, call.arg.curve_info, "right"))

\* The number of segments of lines with x1 # x2.
UsableSegments(lines) == Cardinality({k \in 1..Len(lines) : lines[k][1] # lines[k][3]})

\* mean(leftTrend, rightTrend) of a returned curve info.
ClaimedCombined(res) ==
    Frac(FracAdd(res.left_slope_trend, res.right_slope_trend)[1],
         2 * FracAdd(res.left_slope_trend, res.right_slope_trend)[2])

ClaimedDirection(c) ==
    IF FracLess(<<1, 10>>, c) THEN "right"
    ELSE IF FracLess(c, <<-1, 10>>) THEN "left"
    ELSE "straight"

ClaimedConfidence(c) ==
    IF ClaimedDirection(c) = "straight"
    THEN FracSub(<<1, 1>>, FracMin1(Frac(10 * Abs(c[1]), c[2])))
    ELSE FracMin1(Frac(10 * Abs(c[1]), 3 * c[2]))

\* C22: detect_curve_direction returns "right" exactly when combined =
\* mean(leftTrend, rightTrend) > 0.1, "left" exactly when combined < -0.1
\* and "straight" otherwise, combined equal to 0.1 or -0.1 included; the
\* confidence is min(|combined| / 0.3, 1) for left and right and
\* 1 - min(|combined| / 0.1, 1) for straight; a side with fewer than 2
\* usable segments contributes trend 0.
C22_CurveThresholds ==
    call.op = "curve" =>
        /\ call.res.direction = ClaimedDirection(ClaimedCombined(call.res))
        /\ call.res.confidence = ClaimedConfidence(ClaimedCombined(call.res))
        /\ UsableSegments(call.arg.left_lines) < 2 => call.res.left_slope_trend = <<0, 1>>
        /\ UsableSegments(call.arg.right_lines) < 2 => call.res.right_slope_trend = <<0, 1>>

\* A side's line after the smoother's updateLines, the fit of the frame
\* without a smoother.
LineAfterUpdate(att, fit, stored) == IF att THEN smooth_line(fit, stored) ELSE fit

\* The cleaned render of the two lines: the filled polygon in fill mode
\* with both lines present, else the thick lines of the lines present.
ClaimedRender(f, fill, left, right) ==
    apply_morphological_cleanup(
        IF fill /\ left # None /\ right # None
        THEN FillPolyRuns(left, right, f.w, f.h)
        ELSE LineRuns(left, right, f.w, f.h))

\* C23: build_lane_mask_v2 renders a polygon fill across the four endpoints
\* exactly when fill mode is selected and both lines are present after the
\* smoother's updateLines, a side missing in the frame but stored in the
\* smoother counting as present; in every other case it draws only the thick
\* lines of the sides that are present.
C23_FillNeedsBothSides ==
    (IsPipeline /\ call.v2.stage = "rendered") =>
        /\ call.v2.left = LineAfterUpdate(call.att,
               fit_lane_line(classify_lines(call.f.roi).left, call.f.h),
               call.pre.left_line)
        /\ call.v2.right = LineAfterUpdate(call.att,
               fit_lane_line(classify_lines(call.f.roi).right, call.f.h),
               call.pre.right_line)
        /\ call.v2.filled = (call.fill /\ call.v2.left # None /\ call.v2.right # None)
        /\ call.v2.ret =
               IF call.att
               THEN smooth_mask([call.pre EXCEPT !.left_line = call.v2.left,
                                                 !.right_line = call.v2.right],
                                ClaimedRender(call.f, call.fill, call.v2.left,
                                              call.v2.right)).ret
               ELSE ClaimedRender(call.f, call.fill, call.v2.left, call.v2.right)

\* In fill mode a frame showing only left segments was rendered as a filled
\* polygon with the right line the smoother had stored.
C23_Witness ==
    /\ call.op = "v2"
    /\ call.att
    /\ call.fill
    /\ call.v2.stage = "rendered"
    /\ fit_lane_line(classify_lines(call.f.roi).right, call.f.h) = None
    /\ call.pre.right_line # None
    /\ call.v2.filled

\* C24: every build_lane_mask_v2 call that ends on an absence path (no
\* full-frame segments, no ROI segments, or both fits absent) leaves the
\* attached smoother's stored left line, right line and previous mask as
\* they were before the call.
C24_AbsencePathsKeepSmoother ==
    (IsPipeline /\ call.att /\ NoLanes(call.f)) =>
        /\ call.v2.stage \in {"no_lines", "no_roi_lines", "no_fit"}
        /\ call.v2.sm = call.pre
        /\ (call.op = "v2" => sm[call.s] = call.pre)

\* build_lane_mask_v2 found segments in the ROI but could fit no line, with
\* a smoother holding both lines and a mask.
C24_Witness ==
    /\ call.op = "v2"
    /\ call.att
    /\ BothFitsAbsent(call.f)
    /\ call.pre.left_line # None
    /\ call.pre.right_line # None
    /\ call.pre.prev_mask # None
    /\ sm[call.s] = call.pre

\* C25: after any sequence of build_lane_mask_v2 calls on one smoother, with
\* reset() called at arbitrary points, the smoother holds a previous mask if
\* and only if it holds at least one stored lane line.
C25_MaskIffLine ==
    \A s \in Streams :
        sm[s].prev_mask # None <=> (sm[s].left_line # None \/ sm[s].right_line # None)

\* After a reset, build_lane_mask_v2 saw a frame with left segments only:
\* the smoother holds a mask and the left line, and no right line.
C25_Witness ==
    /\ call.op = "v2"
    /\ n >= 3
    /\ call.pre = NewSmoother
    /\ sm[1].prev_mask # None
    /\ sm[1].left_line # None
    /\ sm[1].right_line = None

\* The stored values of smoother S that are present are present in T.
StaysStored(S, T) ==
    /\ S.left_line # None => T.left_line # None
    /\ S.right_line # None => T.right_line # None
    /\ S.prev_mask # None => T.prev_mask # None

\* C26: smoother memory never expires: a stored line or mask stays present
\* through every later updateLines, smoothMask and pipeline call; only
\* reset() turns a stored value back to absent.
C26_MemoryNeverExpires ==
    [][call'.op # "reset" => \A s \in Streams : StaysStored(sm[s], sm'[s])]_vars

\* The pipeline ran on an all-black frame with a smoother holding both
\* lines and a mask, two calls after they were stored, and all three are
\* still stored.
C26_Witness ==
    /\ call.op = "process"
    /\ n >= 3
    /\ call.att
    /\ IsBlack(call.f)
    /\ call.pre.left_line # None
    /\ call.pre.right_line # None
    /\ call.pre.prev_mask # None
    /\ StaysStored(call.pre, sm[call.s])

\* The call was resolved by the single-lane fallback.
ResolvedByFallback ==
    /\ call.op = "process"
    /\ call.v2.ret = None
    /\ call.fb.ret # None
    /\ call.ret = call.fb.ret

\* C27: a mask produced by the single-lane fallback is never stored in the
\* smoother: after a call resolved by the fallback the smoother's stored
\* lines and previous mask are the same as before the call, so a following
\* frame with no detections does not return the fallback mask.
C27_FallbackNotStored ==
    ResolvedByFallback =>
        /\ sm[call.s] = call.pre
        /\ process_frame_with_fallback(MkFrame(call.s, BlackInput), sm[call.s],
                                       call.att, call.fill).ret = None

\* The fallback resolved a frame without full-frame segments for a pipeline
\* with an empty smoother attached, which is still empty.
C27_Witness ==
    /\ ResolvedByFallback
    /\ call.att
    /\ call.f.full = None
    /\ call.pre = NewSmoother
    /\ sm[call.s] = NewSmoother

Min2(a, b) == IF a <= b THEN a ELSE b

Max2(a, b) == IF a >= b THEN a ELSE b

\* Every endpoint coordinate of the blended line lies between the stored and
\* the observed coordinate, inclusive.
BlendedBetween(arg, stored, ret) ==
    (arg # None /\ stored # None) =>
        \A c \in Coords :
            /\ Min2(arg[c[1]][c[2]], stored[c[1]][c[2]]) <= ret[c[1]][c[2]]
            /\ ret[c[1]][c[2]] <= Max2(arg[c[1]][c[2]], stored[c[1]][c[2]])

\* C28: every blended endpoint coordinate returned by updateLines lies
\* between the previous stored coordinate and the new observed coordinate,
\* inclusive: truncation never makes the stored value overshoot the
\* observation or move away from it.
C28_BlendStaysBetween ==
    call.op = "update" =>
        /\ BlendedBetween(call.argL, call.pre.left_line, call.retL)
        /\ BlendedBetween(call.argR, call.pre.right_line, call.retR)

\* An integer of any size as <<hi, lo>>, its value hi * 2^16 + lo with
\* 0 <= lo < 2^16.
Wide(hi, lo) == << hi + (lo \div 65536), lo % 65536 >>

\* a * b exactly, for |b| < 2^15.
WideMul(a, b) == Wide((a \div 65536) * b, (a % 65536) * b)

WideSub(p, q) == Wide(p[1] - q[1], p[2] - q[2])

\* The value lies within the signed 32-bit range.
Fits32(p) == -32768 <= p[1] /\ p[1] <= 32767

\* x1 y2 - y1 x2 of a segment inside the frame, exactly.
ExactCross(a) == a[1] * a[4] - a[2] * a[3]

\* The exact numerator da * d34 - d12 * db.
ExactNumer(da, d34, d12, db) == WideSub(WideMul(da, d34), WideMul(db, d12))

\* The 32-bit numerator is the exact one.
NumerExact(da, d34, d12, db) ==
    /\ Fits32(ExactNumer(da, d34, d12, db))
    /\ Wide(0, 0) = WideSub(ExactNumer(da, d34, d12, db),
                            Wide(PairNumer(da, d34, d12, db) \div 65536,
                                 PairNumer(da, d34, d12, db) % 65536))

\* The determinant and the two numerators of the pair (a, b) are computed
\* without wraparound.
PairExact(a, b) ==
    /\ PairDenom(Sub32(a[1], a[3]), Sub32(a[2], a[4]),
                 Sub32(b[1], b[3]), Sub32(b[2], b[4]))
           = (a[1] - a[3]) * (b[2] - b[4]) - (a[2] - a[4]) * (b[1] - b[3])
    /\ Sub32(Mul32(a[1], a[4]), Mul32(a[2], a[3])) = ExactCross(a)
    /\ Sub32(Mul32(b[1], b[4]), Mul32(b[2], b[3])) = ExactCross(b)
    /\ NumerExact(ExactCross(a), b[1] - b[3], a[1] - a[3], ExactCross(b))
    /\ NumerExact(ExactCross(a), b[2] - b[4], a[2] - a[4], ExactCross(b))

\* The endpoints lie inside the frame, of at most 1920x1080 pixels.
InsideFrame(lines, width, height) ==
    /\ width <= 1920
    /\ height <= 1080
    /\ \A i \in 1..Len(lines) :
           /\ 0 <= lines[i][1] /\ lines[i][1] <= width
           /\ 0 <= lines[i][3] /\ lines[i][3] <= width
           /\ 0 <= lines[i][2] /\ lines[i][2] <= height
           /\ 0 <= lines[i][4] /\ lines[i][4] <= height

\* C29: for segments whose endpoints lie inside a frame of up to 1920x1080
\* pixels the determinant and the two intersection numerators of every pair
\* stay within the signed 32-bit range, so that detect_vanishing_point
\* computes them without wraparound.
C29_NoWraparound ==
    (/\ call.op = "vanishing_point"
     /\ call.arg.lines # None
     /\ InsideFrame(call.arg.lines, call.arg.width, call.arg.height)) =>
        \A i, j \in 1..Len(call.arg.lines) :
            i < j => PairExact(call.arg.lines[i], call.arg.lines[j])

\* C30: across run_once calls on one output directory each source path is
\* processed at most once after a successful processing: a source is in
\* the persisted state right after its process_source returns, a source
\* recorded in the state a run_once loaded is not processed by it, and a
\* source whose processing raised is not recorded.
C30_ProcessedAtMostOnce ==
    /\ \A p \in SourcePaths : run.done[p] <= 1
    /\ run.last.op = "process" =>
           /\ run.last.path \notin run.last.loaded
           /\ run.last.ok => run.last.path \in RecordedPaths(load_state(run.file))
           /\ ~ run.last.ok => run.file = run.last.file

====
